---- MODULE Spec2Model ----
(***************************************************************************)
(* Model of the Ankur interview console: the interview modal's version     *)
(* resolution, guide partitioning and answer alignment, the guide loaders, *)
(* the stores they write and their refresh, and the calls of azure.ts with *)
(* its polling loop.                                                       *)
(*                                                                         *)
(* Strings are sequences of one-character strings, so that trim,           *)
(* toLowerCase, includes, startsWith and length are computed as the        *)
(* JavaScript computes them.  An optional JavaScript value is None (<<>>)  *)
(* or Some(v) (<<v>>).                                                     *)
(***************************************************************************)
EXTENDS Integers, Sequences, FiniteSets, TLC

VARIABLES
    guides,              \* useGuidesStore.guides: sequence of Guide records
    interviews,          \* useInterviewsStore.interviews: id -> [status, answers]
    answers,             \* InterviewModal state: AnswerBlock[]
    prompts,             \* InterviewModal state: prompt blocks
    analysis,            \* alignment runs: the getAnalysis response being processed
    loadPc,              \* alignment runs: position of the data-load effect
    isAdmin,             \* InterviewModal prop: the admin panel's instance or the main page's
    modalOpen,           \* Home / AdminPanel state: the modal's open flag
    interview,           \* Home / AdminPanel state: the selected interview (None or Some)
    versions,            \* InterviewModal state: version rows, as last set
    selectedVersion,     \* InterviewModal state: None or Some(version)
    loadingVersions,     \* InterviewModal state
    loadingVersionData,  \* InterviewModal state
    backend,             \* the analysis versions the backend holds, per interview
    tasks,               \* the async functions in flight, each at its await
    listing,             \* the last listAnalysis exchange of the modal
    opened,              \* how many times the modal has been opened so far
    toast,               \* the last notification shown by handleSave
    jsonData,            \* guide upload: the document read from the file or the form
    questionnaireBlob,   \* the questionnaire blob the backend stores (None before upload)
    responseShape,       \* the shape GET /api/questionnaires/{id} answers in
    guidesLoader,        \* the component that last wrote the guides store
    refreshes,           \* how many runs of loadInterviews have set the store
    refreshing,          \* the run of loadInterviews in flight (None or Some), at its await
    guideLine,           \* classifier runs: the line handed to isValidQuestionText
    classified,          \* classifier runs: None, or Some(the boolean returned)
    baseUrl,             \* azure.ts: whether BASE_URL is a non-empty string
    op,                  \* azure.ts: the exported function being called
    maxAttempts,         \* pollForTranscripts: its maxAttempts argument
    call,                \* azure.ts: the call's position, locals and requests issued
    response,            \* azure.ts: the response the call's API request received
    outcome,             \* azure.ts: None, or Some(the value returned or the error thrown)
    mounted,             \* whether the view that started the call is still mounted
    versionFetch,        \* the per-version getAnalysis requests of one loadVersions
    upload,              \* UploadAudioSection: its form, its busy flag and its run of handleUpload
    roundTrip,           \* round trip runs: the questionnaire fetched and the version saved
    loads,               \* the runs of loadInterviews in flight, and the runs whose result was stored
    analyze              \* AnalyzeSection: the selection and the run of handleAnalyze

alignVars == <<analysis, loadPc>>
shownVars == <<guides, interviews, answers, prompts>>
modalVars == <<isAdmin, modalOpen, interview, versions, selectedVersion, loadingVersions,
               loadingVersionData, backend, tasks, listing, opened, toast>>

guideVars == <<jsonData, questionnaireBlob, responseShape, guidesLoader>>

refreshVars == <<refreshes, refreshing>>

libVars == <<guideLine, classified, baseUrl, op, maxAttempts, call, response, outcome, mounted,
             versionFetch, upload, roundTrip, loads, analyze>>

vars == <<alignVars, shownVars, modalVars, guideVars, refreshVars, libVars>>

-----------------------------------------------------------------------------
(* Optional values and JavaScript truthiness *)

None == <<>>
Some(v) == <<v>>
IsDefined(o) == o # None
\* truthiness of an optional string: defined and not ""
Truthy(o) == o # None /\ o[1] # <<>>
\* (o || "")
OrEmpty(o) == IF Truthy(o) THEN o[1] ELSE <<>>

-----------------------------------------------------------------------------
(* String primitives *)

WS == {" ", "\t", "\n", "\r"}

UpperChars == <<"A","B","C","D","E","F","G","H","I","J","K","L","M",
                "N","O","P","Q","R","S","T","U","V","W","X","Y","Z">>
LowerChars == <<"a","b","c","d","e","f","g","h","i","j","k","l","m",
                "n","o","p","q","r","s","t","u","v","w","x","y","z">>

ToLowerChar(c) ==
    IF \E i \in 1..Len(UpperChars) : UpperChars[i] = c
    THEN LowerChars[CHOOSE i \in 1..Len(UpperChars) : UpperChars[i] = c]
    ELSE c

\* String.prototype.toLowerCase
ToLowerCase(s) == [i \in 1..Len(s) |-> ToLowerChar(s[i])]

\* String.prototype.trim
Trim(s) ==
    LET nonWs == {i \in 1..Len(s) : s[i] \notin WS}
    IN IF nonWs = {} THEN <<>>
       ELSE LET lo == CHOOSE i \in nonWs : \A j \in nonWs : i <= j
                hi == CHOOSE i \in nonWs : \A j \in nonWs : i >= j
            IN SubSeq(s, lo, hi)

\* String.prototype.includes
Includes(long, short) ==
    \E i \in 0..(Len(long) - Len(short)) : SubSeq(long, i + 1, i + Len(short)) = short

\* String.prototype.startsWith
StartsWith(s, prefix) ==
    Len(s) >= Len(prefix) /\ SubSeq(s, 1, Len(prefix)) = prefix

\* a normalisation that lowers the case and keeps the surrounding whitespace
NormalizeNoTrim(s) == ToLowerCase(s)

\* text.trim().toLowerCase(), the normalisation of prompt and question texts
Normalize(s) == ToLowerCase(Trim(s))

-----------------------------------------------------------------------------
(* Text classifier *)

Brackets == {"[", "]", "{", "}"}

QuestionsKey == <<"\"","q","u","e","s","t","i","o","n","s","\"",":">>
PromptsKey == <<"\"","p","r","o","m","p","t","s","\"",":">>

\* /^\s*[\[\]{}]\s*,?\s*$/
BracketCommaRegex(t) ==
    \E a \in 0..Len(t) :
        /\ \A i \in 1..a : t[i] \in WS
        /\ a + 1 <= Len(t)
        /\ t[a + 1] \in Brackets
        /\ \E b \in (a + 1)..Len(t) :
              /\ \A i \in (a + 2)..b : t[i] \in WS
              /\ \/ b = Len(t)
                 \/ /\ t[b + 1] = ","
                    /\ \A i \in (b + 2)..Len(t) : t[i] \in WS

\* /^\s*[\[\]{}]\s*$/
BracketRegex(t) ==
    \E a \in 0..Len(t) :
        /\ \A i \in 1..a : t[i] \in WS
        /\ a + 1 <= Len(t)
        /\ t[a + 1] \in Brackets
        /\ \A i \in (a + 2)..Len(t) : t[i] \in WS

\* a classifier that compares the text as given, without trimming it first
isValidQuestionTextUntrimmed(text) ==
    /\ text # <<>>
    /\ ~ ( \/ text \in {<<"{">>, <<"}">>, <<"[">>, <<"]">>, <<"]", ",">>, <<"}", ",">>}
          \/ StartsWith(text, QuestionsKey)
          \/ StartsWith(text, PromptsKey) )

\* a classifier that knows the two keys and none of the bracket tokens
isValidQuestionTextNoBrackets(text) ==
    /\ text # <<>>
    /\ LET trimmed == Trim(text)
       IN ~ ( \/ StartsWith(trimmed, QuestionsKey)
              \/ StartsWith(trimmed, PromptsKey) )

isValidQuestionText(text) ==
    /\ text # <<>>
    /\ LET trimmed == Trim(text)
       IN ~ ( \/ trimmed = <<"{">>
              \/ trimmed = <<"}">>
              \/ trimmed = <<"[">>
              \/ trimmed = <<"]">>
              \/ trimmed = <<"]", ",">>
              \/ trimmed = <<"}", ",">>
              \/ trimmed = QuestionsKey \o <<" ", "[">>
              \/ trimmed = PromptsKey \o <<" ", "[">>
              \/ StartsWith(trimmed, QuestionsKey)
              \/ StartsWith(trimmed, PromptsKey)
              \/ BracketCommaRegex(trimmed)
              \/ BracketRegex(trimmed) )

-----------------------------------------------------------------------------
(* Prompt/question partitioner *)

Range(s) == {s[i] : i \in 1..Len(s)}

\* promptTexts: normalised promptText of the analysis result's prompts
promptTexts(resultPrompts) ==
    {Normalize(p.promptText[1]) : p \in {r \in Range(resultPrompts) : Truthy(r.promptText)}}

\* promptIndices: the indices the analysis result's prompts carry
promptIndices(resultPrompts) ==
    {p.index[1] : p \in {r \in Range(resultPrompts) : IsDefined(r.index)}}

\* guidePromptTexts: normalised texts of the guide's own prompts
guidePromptTexts(guide) ==
    {Normalize(p) : p \in {r \in Range(guide.prompts) : r # <<>>}}

allPromptTexts(guide, resultPrompts) ==
    promptTexts(resultPrompts) \cup guidePromptTexts(guide)

\* the near-duplicate test with the ratio taken strictly above 0.8
NearMatchStrict(normalizedQText, promptText) ==
    LET qLonger == Len(normalizedQText) > Len(promptText)
        longer  == IF qLonger THEN normalizedQText ELSE promptText
        shorter == IF qLonger THEN promptText ELSE normalizedQText
    IN /\ Len(longer) > 0
       /\ 10 * Len(shorter) > 8 * Len(longer)
       /\ Includes(longer, shorter)

\* shorter.length / longer.length >= 0.8 && longer.includes(shorter)
NearMatch(normalizedQText, promptText) ==
    LET qLonger == Len(normalizedQText) > Len(promptText)
        longer  == IF qLonger THEN normalizedQText ELSE promptText
        shorter == IF qLonger THEN promptText ELSE normalizedQText
    IN /\ Len(longer) > 0
       /\ 10 * Len(shorter) >= 8 * Len(longer)
       /\ Includes(longer, shorter)

\* the prompt test shared by validGuideQuestions and filteredQuestionsWithIndices
MatchesPrompt(qText, promptSet) ==
    LET normalizedQText == Normalize(qText)
    IN \/ normalizedQText \in promptSet
       \/ \E promptText \in promptSet :
             \/ normalizedQText = promptText
             \/ NearMatch(normalizedQText, promptText)

\* validGuideQuestions: guide.questions.filter(...)
validGuideQuestions(guide, resultPrompts) ==
    LET promptSet == allPromptTexts(guide, resultPrompts)
        Keep(qText) == isValidQuestionText(qText) /\ ~MatchesPrompt(qText, promptSet)
    IN SelectSeq(guide.questions, Keep)


\* the looser prompt test applied to freshly fetched questions (|len diff| < 10)
MatchesQuestionnairePrompt(qText, promptSet) ==
    LET normalizedQText == Normalize(qText)
        Abs(n) == IF n < 0 THEN -n ELSE n
    IN \/ normalizedQText \in promptSet
       \/ \E promptText \in promptSet :
             /\ Includes(normalizedQText, promptText) \/ Includes(promptText, normalizedQText)
             /\ Abs(Len(normalizedQText) - Len(promptText)) < 10

\* questionsToUse: validGuideQuestions, or, when that is empty, the questions of
\* the freshly fetched questionnaire.  `questionnaire` is None when the fetch
\* failed, else Some(response of getQuestionnaire).
questionsToUse(guide, resultPrompts, questionnaire) ==
    LET valid == validGuideQuestions(guide, resultPrompts)
    IN IF valid # <<>> THEN valid
       ELSE IF questionnaire = None \/ ~IsDefined(questionnaire[1].questions) THEN valid
       ELSE LET promptSet == allPromptTexts(guide, resultPrompts)
                               \cup {Normalize(p) : p \in {r \in Range(questionnaire[1].prompts) : r # <<>>}}
                Keep(qText) == isValidQuestionText(qText)
                               /\ ~MatchesQuestionnairePrompt(qText, promptSet)
            IN SelectSeq(questionnaire[1].questions[1], Keep)

\* questionsToUse.map((qText, originalIndex) => ({ qText, originalIndex }))
WithIndices(qs) == [i \in 1..Len(qs) |-> [qText |-> qs[i], originalIndex |-> i - 1]]

\* filteredQuestionsWithIndices
filteredQuestionsWithIndices(guide, resultPrompts, questionnaire) ==
    LET promptSet == allPromptTexts(guide, resultPrompts)
        Keep(e) == ~MatchesPrompt(e.qText, promptSet)
    IN SelectSeq(WithIndices(questionsToUse(guide, resultPrompts, questionnaire)), Keep)

-----------------------------------------------------------------------------
(* Answer aligner *)

\* the "looks like a prompt" heuristic
LooksLikePrompt(q) ==
    \/ Truthy(q.promptText)
    \/ (Truthy(q.response) /\ ~Truthy(q.answerSummary) /\ ~Truthy(q.questionText))

\* validQuestions: resultQs.filter(...)
IsValidQuestionEntry(q, resultPrompts) ==
    /\ q.kind = "object"
    /\ ~Truthy(q.promptText)
    /\ ~(Truthy(q.questionText) /\ Normalize(q.questionText[1]) \in promptTexts(resultPrompts))
    /\ ~(Truthy(q.response) /\ ~Truthy(q.answerSummary) /\ ~Truthy(q.questionText))
    /\ ~( /\ IsDefined(q.index)
          /\ q.index[1] \in promptIndices(resultPrompts)
          /\ Truthy(q.response)
          /\ ~Truthy(q.answerSummary) )
    /\ (IsDefined(q.answerSummary) \/ (IsDefined(q.index) /\ Truthy(q.questionText)))

validQuestions(resultQs, resultPrompts) ==
    LET Keep(q) == IsValidQuestionEntry(q, resultPrompts)
    IN SelectSeq(resultQs, Keep)

EmptyEntry ==
    [kind |-> "object", index |-> None, answerSummary |-> None, questionText |-> None,
     promptText |-> None, response |-> None, verbatimQuotes |-> None]

\* validQuestions.find((q) => q.index === originalIndex)
FindByIndex(valid, originalIndex) ==
    LET hits == {k \in 1..Len(valid) : valid[k].index = Some(originalIndex)}
    IN IF hits = {} THEN None
       ELSE Some(valid[CHOOSE k \in hits : \A j \in hits : k <= j])

\* the entry chosen for the question at display position i (0-based)
FoundEntry(valid, originalIndex, i) ==
    LET byIndex == FindByIndex(valid, originalIndex)
        found == IF byIndex # None THEN byIndex[1]
                 ELSE IF i + 1 <= Len(valid) /\ ~LooksLikePrompt(valid[i + 1])
                      THEN valid[i + 1]
                      ELSE EmptyEntry
    IN IF LooksLikePrompt(found) THEN EmptyEntry ELSE found

\* verbatimQuotes.map(vq => ({quote: vq.quote || "", note: vq.note || undefined}))
MapQuotes(found) ==
    IF ~IsDefined(found.verbatimQuotes) THEN None
    ELSE LET qs == found.verbatimQuotes[1]
             out == [k \in 1..Len(qs) |->
                        [quote |-> OrEmpty(qs[k].quote),
                         note  |-> IF Truthy(qs[k].note) THEN qs[k].note ELSE None]]
         IN IF Len(out) > 0 THEN Some(out) ELSE None

AnswerBlockOf(qText, found) ==
    [question |-> qText, answer |-> OrEmpty(found.answerSummary), quotes |-> MapQuotes(found)]

\* mapped: filteredQuestionsWithIndices.map(({qText, originalIndex}, i) => ...)
MapAnswers(filtered, valid) ==
    [k \in 1..Len(filtered) |->
        AnswerBlockOf(filtered[k].qText,
                      FoundEntry(valid, filtered[k].originalIndex, k - 1))]

\* resultPrompts.map(p => ({index: p.index ?? 0, promptText: p.promptText || "", ...}))
MapPrompts(resultPrompts) ==
    [k \in 1..Len(resultPrompts) |->
        [index      |-> IF IsDefined(resultPrompts[k].index) THEN resultPrompts[k].index[1] ELSE 0,
         promptText |-> OrEmpty(resultPrompts[k].promptText),
         response   |-> OrEmpty(resultPrompts[k].response)]]

\* guides.find((g) => g.id === interview.guideId)
FindGuide(gs, guideId) ==
    LET hits == {k \in 1..Len(gs) : gs[k].id = guideId}
    IN IF hits = {} THEN None
       ELSE Some(gs[CHOOSE k \in hits : \A j \in hits : k <= j])


-----------------------------------------------------------------------------
(* The modal's data-load effect, from the getAnalysis response on *)

\* const statusFromModel = model || "Draft"
StatusFromModel(model) == IF model # None /\ model[1] # "" THEN model[1] ELSE "Draft"

\* useInterviewsStore.updateInterview: merges the updates into the interview with
\* that id, and changes nothing when no interview has it
updateInterview(store, id, newAnswers, newStatus) ==
    [i \in DOMAIN store |->
        IF i = id THEN [store[i] EXCEPT !.answers = newAnswers, !.status = newStatus]
        ELSE store[i]]

\* what the effect leaves in the modal and the interviews store once the
\* response `a` of getAnalysis has been processed
EffectPrompts(a) ==
    IF Len(a.prompts) > 0 THEN MapPrompts(a.prompts) ELSE <<>>

\* the guard before the mapping: guide && Array.isArray(resultQs) && resultQs.length > 0
EffectMaps(gs, guideId, a) ==
    FindGuide(gs, guideId) # None /\ Len(a.questions) > 0

\* an alignment that takes the entry at each question's display position as it is
EffectMappedPositional(gs, guideId, a, questionnaire) ==
    LET guide == FindGuide(gs, guideId)[1]
        filtered == filteredQuestionsWithIndices(guide, a.prompts, questionnaire)
    IN [k \in 1..Len(filtered) |->
           AnswerBlockOf(filtered[k].qText,
                         IF k <= Len(a.questions) /\ a.questions[k].kind = "object"
                         THEN a.questions[k] ELSE EmptyEntry)]

EffectMapped(gs, guideId, a, questionnaire) ==
    LET guide == FindGuide(gs, guideId)[1]
    IN MapAnswers(filteredQuestionsWithIndices(guide, a.prompts, questionnaire),
                  validQuestions(a.questions, a.prompts))

-----------------------------------------------------------------------------
(* Input pools of the alignment specification *)

MaxGuideLen == 3
MaxResultLen == 2

Q1 == <<"Q", "1">>
Q2 == <<"Q", "2">>
A0 == <<"A", "0">>
A1 == <<"A", "1">>
A2 == <<"A", "2">>
A3 == <<"A", "3">>
LBrace == <<"{">>
\* the backquote character (the lexer admits none inside a string)
Backquote == "backquote"
Fence == <<Backquote, Backquote, Backquote>>
PromptAbcd == <<"a", "b", "c", "d">>
LinePadded == <<" ", "A", "B", "c", "d", " ">>
LineNear == <<"a", "b", "c", "d", "e">>
LineFar == <<"a", "b", "c", "d", "e", "f">>
LineShort == <<"a", "b", "c">>
LineOther == <<"x", "b", "c", "d">>
LineQuestionsKey == QuestionsKey \o <<" ", "[">>
WhatCrops == <<"W","h","a","t"," ","c","r","o","p","s"," ","d","o"," ",
               "y","o","u"," ","g","r","o","w","?">>
RespText == <<"R">>
QuoteText == <<"q">>

Entry(index, answerSummary) ==
    [EmptyEntry EXCEPT !.index = index, !.answerSummary = answerSummary]

E0 == Entry(Some(0), Some(A1))
E1 == [Entry(Some(1), Some(A2)) EXCEPT
          !.verbatimQuotes = Some(<<[quote |-> Some(QuoteText), note |-> None]>>)]
E2 == Entry(Some(2), Some(A3))
ENoIndex == Entry(None, Some(A0))
EPrompt == [Entry(Some(0), None) EXCEPT !.promptText = Some(PromptAbcd), !.response = Some(RespText)]
EResponse == [Entry(Some(1), None) EXCEPT !.response = Some(RespText)]
\* a prompt that carries an answer summary of its own
PromptAnswer == <<"P", "A">>
EPromptAnswered == [Entry(Some(0), Some(PromptAnswer)) EXCEPT !.promptText = Some(LineOther)]
EJunk == [EmptyEntry EXCEPT !.kind = "junk"]

P0 == [index |-> Some(0), promptText |-> Some(PromptAbcd), response |-> Some(RespText)]

SeqsUpTo(S, n) == UNION {[1..k -> S] : k \in 0..n}

AlignLines == {Q1, Q2, LBrace, PromptAbcd}
AlignEntries == {E0, E1, E2, ENoIndex, EPrompt, EResponse, EJunk}

PartitionLines == {Q1, LBrace, LinePadded, LineNear, LineFar, LineShort, LineOther,
                   Fence, WhatCrops, LineQuestionsKey}

\* inputs of the alignment: few guide lines, many analysis entries
AlignInputs ==
    {[questions |-> qs, gprompts |-> <<>>, rquestions |-> rq, rprompts |-> rp] :
        qs \in SeqsUpTo(AlignLines, MaxGuideLen),
        rq \in SeqsUpTo(AlignEntries, MaxResultLen),
        rp \in {<<>>, <<P0>>}}

\* inputs with a prompt that carries an answer among the analysis entries
PromptAnswerInputs ==
    {[questions |-> qs, gprompts |-> <<>>, rquestions |-> rq, rprompts |-> <<>>] :
        qs \in {<<Q1>>, <<Q1, Q2>>},
        rq \in {<<EPromptAnswered>>, <<EPromptAnswered, E1>>, <<E1, EPromptAnswered>>,
                <<EPromptAnswered, ENoIndex>>}}

\* inputs of the partition: many guide lines, prompts from both sources
PartitionInputs ==
    {[questions |-> qs, gprompts |-> gp, rquestions |-> <<E0>>, rprompts |-> rp] :
        qs \in SeqsUpTo(PartitionLines, MaxGuideLen),
        gp \in {<<>>, <<PromptAbcd>>},
        rp \in {<<>>, <<P0>>}}

TheGuideId == "g1"

-----------------------------------------------------------------------------
(* Alignment specification: the data-load effect applied to drawn inputs *)

\* the modal's own variables while no modal is driven
ModalIdle ==
    /\ isAdmin = FALSE
    /\ modalOpen = FALSE
    /\ interview = None
    /\ versions = <<>>
    /\ selectedVersion = None
    /\ loadingVersions = FALSE
    /\ loadingVersionData = FALSE
    /\ backend = <<>>
    /\ tasks = {}
    /\ listing = None
    /\ opened = 0
    /\ toast = "none"

\* the guide upload's variables while no upload is driven
GuideIdle ==
    /\ jsonData = None
    /\ questionnaireBlob = None
    /\ responseShape = "json"
    /\ guidesLoader = "none"

\* no run of loadInterviews started yet
NoLoads == [started |-> 0, fetches |-> 0, runs |-> <<>>, stored |-> <<>>]

\* the variables of the classifier runs while none is driven
LibIdle ==
    /\ guideLine = <<>>
    /\ classified = None
    /\ baseUrl = TRUE
    /\ op = "none"
    /\ maxAttempts = 0
    /\ call = <<>>
    /\ response = None
    /\ outcome = None
    /\ mounted = TRUE
    /\ versionFetch = None
    /\ upload = None
    /\ roundTrip = None
    /\ loads = NoLoads
    /\ analyze = None

\* the interviews store while no run of loadInterviews is driven
RefreshIdle ==
    /\ refreshes = 0
    /\ refreshing = None

TheInterviewId == "A"

InitAlign ==
    /\ \E in \in AlignInputs \cup PartitionInputs \cup PromptAnswerInputs :
        /\ guides = <<[id |-> TheGuideId, questions |-> in.questions, prompts |-> in.gprompts]>>
        /\ analysis = [model |-> Some("gpt-5.1"), questions |-> in.rquestions,
                       prompts |-> in.rprompts]
    /\ answers = <<>>
    /\ prompts = <<>>
    /\ interviews = [i \in {TheInterviewId} |-> [status |-> "Draft", answers |-> <<>>]]
    /\ loadPc = "awaiting"
    /\ ModalIdle
    /\ GuideIdle
    /\ LibIdle
    /\ RefreshIdle

\* the getAnalysis response arrives and is processed to the end of the effect;
\* the nested getQuestionnaire either fails or returns its response
LoadAnalysisOk ==
    /\ loadPc = "awaiting"
    /\ \E questionnaire \in {None, Some([text |-> <<>>, questions |-> None, prompts |-> <<>>])} :
          /\ prompts' = EffectPrompts(analysis)
          /\ IF EffectMaps(guides, TheGuideId, analysis)
             THEN LET mapped == EffectMapped(guides, TheGuideId, analysis, questionnaire)
                  IN /\ answers' = mapped
                     /\ interviews' = updateInterview(interviews, TheInterviewId, mapped,
                                                      StatusFromModel(analysis.model))
             ELSE UNCHANGED <<answers, interviews, guideVars>>
    /\ loadPc' = "done"
    /\ UNCHANGED <<libVars, refreshVars, guides, analysis, modalVars, guideVars>>

\* getAnalysis rejects: the catch logs and nothing is set
LoadAnalysisFail ==
    /\ loadPc = "awaiting"
    /\ loadPc' = "failed"
    /\ UNCHANGED <<libVars, refreshVars, analysis, shownVars, modalVars, guideVars>>

NextAlign == LoadAnalysisOk \/ LoadAnalysisFail

SpecAlign == InitAlign /\ [][NextAlign]_vars


-----------------------------------------------------------------------------
(* The backend's analysis versions, as the console's requests see them *)

MaxVersion == 3
MaxTasks == 2
MaxOpens == 2
MaxSaves == 1

ModalIds == {"A", "B"}

\* crypto.randomUUID(): the id the n-th run of loadInterviews gives the interview
\* of an audio (the ids of the first run are written as the audio's name)
Uuid(audio, n) == IF n = 0 THEN audio ELSE audio \o ToString(n)

\* a row of the interviews store, as loadInterviews pushes it
StoreRow(audio, status) == [audioId |-> audio, status |-> status, answers |-> <<>>]

\* the Interview object of a row of the table, as the modal receives it
InterviewRow(id, row) ==
    [id |-> id, audioId |-> row.audioId, guideId |-> TheGuideId, answers |-> row.answers]

\* the analysis stored as version v of interview id: its one answer names both
StoredAnswer(id, v) == <<id, ToString(v)>>

StoredAnalysis(id, v) ==
    [model |-> Some("gpt-5.1"),
     questions |-> <<Entry(Some(0), Some(StoredAnswer(id, v)))>>,
     prompts |-> <<>>]

MaxOf(S) == CHOOSE m \in S : \A x \in S : x <= m

\* GET /api/analysis?audioId&questionnaireId: the pair's versions, in any order
ListOrders(S) ==
    {s \in [1..Cardinality(S) -> S] : \A i, j \in 1..Cardinality(S) : s[i] = s[j] => i = j}

\* GET /api/analysis/{audioId}/{questionnaireId}?version|latest: Some(payload),
\* or None where the backend answers 404
BackendGetAnalysis(b, id, query) ==
    IF query.version # None
    THEN IF query.version[1] \in DOMAIN b[id] THEN Some(b[id][query.version[1]]) ELSE None
    ELSE IF query.latest /\ DOMAIN b[id] # {}
         THEN Some(b[id][MaxOf(DOMAIN b[id])])
         ELSE None

\* POST /api/analysis/{audioId}/{questionnaireId}/manual: appends the next version
BackendCreateManual(b, id, payload) ==
    LET next == IF DOMAIN b[id] = {} THEN 1 ELSE MaxOf(DOMAIN b[id]) + 1
    IN [b EXCEPT ![id] = [v \in DOMAIN b[id] \cup {next} |->
                             IF v = next THEN payload ELSE b[id][v]]]

\* getAnalysis: the query string built from opts
getAnalysisQuery(opts) ==
    [version |-> opts.version, latest |-> opts.latest]

-----------------------------------------------------------------------------
(* Version resolver of the interview modal *)

\* versionToLoad ? { version: versionToLoad } : { latest: true }
DataLoadOpts(admin, selected) ==
    LET versionToLoad == IF admin THEN None ELSE selected
    IN IF versionToLoad # None /\ versionToLoad[1] # 0
       THEN [version |-> versionToLoad, latest |-> FALSE]
       ELSE [version |-> None, latest |-> TRUE]

\* the rows in the order the listing gave them
Unsorted(rows) == rows

\* versionsWithModel.sort((a, b) => b.version - a.version)
RECURSIVE SortByVersionDesc(_)

SortByVersionDesc(rows) ==
    IF rows = <<>> THEN <<>>
    ELSE LET top == CHOOSE k \in 1..Len(rows) :
                        /\ \A j \in 1..Len(rows) : rows[j].version <= rows[k].version
                        /\ \A j \in 1..(k - 1) : rows[j].version < rows[k].version
             rest == [j \in 1..(Len(rows) - 1) |-> IF j < top THEN rows[j] ELSE rows[j + 1]]
         IN <<rows[top]>> \o SortByVersionDesc(rest)

\* the rows built from a listing and the per-version getAnalysis results
\* (fetched: the versions whose getAnalysis resolved)
versionsWithModel(b, id, list, fetched) ==
    [k \in 1..Len(list) |->
        [version |-> list[k],
         model |-> IF list[k] \in fetched /\ list[k] \in DOMAIN b[id]
                      /\ b[id][list[k]].model # None
                   THEN b[id][list[k]].model[1] ELSE ""]]

\* handleSave: the result payload built from the answers and prompts on screen
resultPayload(as, ps) ==
    [model |-> Some("gpt-5.1-human-edit"),
     questions |-> [k \in 1..Len(as) |->
                      [kind |-> "object", index |-> Some(k - 1),
                       answerSummary |-> Some(as[k].answer),
                       questionText |-> Some(as[k].question),
                       promptText |-> None, response |-> None,
                       verbatimQuotes |-> IF as[k].quotes # None
                                          THEN Some([j \in 1..Len(as[k].quotes[1]) |->
                                                   [quote |-> Some(as[k].quotes[1][j].quote),
                                                    note |-> as[k].quotes[1][j].note]])
                                          ELSE Some(<<>>)]],
     prompts |-> [k \in 1..Len(ps) |->
                    [index |-> Some(ps[k].index), promptText |-> Some(ps[k].promptText),
                     response |-> Some(ps[k].response)]]]

-----------------------------------------------------------------------------
(* Modal specification: opening, version loading, data loading, saving *)

NoOpts == [version |-> None, latest |-> FALSE]

\* an async function of the modal suspended at an await, with what its closure
\* captured: the interview, the selected version and the request options
Task(kind, stage, iv, selected, opts, list, saved) ==
    [kind |-> kind, stage |-> stage, iv |-> iv, selected |-> selected, opts |-> opts,
     list |-> list, saved |-> saved]

NoSaved == [answers |-> <<>>, prompts |-> <<>>]

\* the effect of lines 63-105 runs when one of [open, interview, isAdmin] changed
\* and passes its early returns
StartsLoadVersions(open2, iv2) ==
    /\ <<open2, iv2>> # <<modalOpen, interview>>
    /\ open2 /\ iv2 # None /\ ~isAdmin
    /\ iv2[1].audioId # "" /\ iv2[1].guideId # ""

\* the effect of lines 108-374 runs when one of [open, interview, guides,
\* updateInterview, isAdmin, selectedVersion] changed
RunsDataEffect(open2, iv2, sel2) ==
    /\ <<open2, iv2, sel2>> # <<modalOpen, interview, selectedVersion>>
    /\ open2 /\ iv2 # None

StartsDataLoad(open2, iv2, sel2) ==
    /\ RunsDataEffect(open2, iv2, sel2)
    /\ iv2[1].audioId # "" /\ iv2[1].guideId # ""
    /\ (isAdmin \/ sel2 # None)

\* the render after a step: the two effects run on the new props and state
Render(open2, iv2, sel2, otherTasks, lv, lvd, as) ==
    /\ modalOpen' = open2
    /\ interview' = iv2
    /\ selectedVersion' = sel2
    /\ tasks' = otherTasks
          \cup (IF StartsLoadVersions(open2, iv2)
                THEN {Task("loadVersions", "list", iv2[1], None, NoOpts, <<>>, NoSaved)} ELSE {})
          \cup (IF StartsDataLoad(open2, iv2, sel2)
                THEN {Task("loadData", "analysis", iv2[1], sel2, DataLoadOpts(isAdmin, sel2),
                           <<>>, NoSaved)}
                ELSE {})
    /\ loadingVersions' = (StartsLoadVersions(open2, iv2) \/ lv)
    /\ loadingVersionData' = (StartsDataLoad(open2, iv2, sel2) \/ lvd)
    /\ answers' = IF RunsDataEffect(open2, iv2, sel2) /\ isAdmin THEN iv2[1].answers ELSE as

\* the version numbers a pair starts with: none, a run from 1, a run with a gap
\* left by a deletion, or a run from 0
VersionSets == {{}, {0, 1}, {1, MaxVersion}} \cup {1..n : n \in 1..MaxVersion}

\* the initial state of a session: the instance, and each pair's stored versions
InitSession(admins, setsA, setsB) ==
    /\ isAdmin \in admins
    /\ \E va \in setsA, vb \in setsB :
          backend = [id \in ModalIds |->
                       [v \in (IF id = "A" THEN va ELSE vb) |-> StoredAnalysis(id, v)]]
    /\ guides = <<[id |-> TheGuideId, questions |-> <<Q1>>, prompts |-> <<>>]>>
    /\ interviews = [id \in ModalIds |-> StoreRow(id, "Draft")]
    /\ answers = <<>>
    /\ prompts = <<>>
    /\ modalOpen = FALSE
    /\ interview = None
    /\ versions = <<>>
    /\ selectedVersion = None
    /\ loadingVersions = FALSE
    /\ loadingVersionData = FALSE
    /\ tasks = {}
    /\ listing = None
    /\ opened = 0
    /\ toast = "none"
    /\ analysis = [model |-> None, questions |-> <<>>, prompts |-> <<>>]
    /\ loadPc = "idle"
    /\ GuideIdle
    /\ LibIdle
    /\ RefreshIdle

InitModal == InitSession(BOOLEAN, VersionSets, {{}, {1}})

InitSave == InitSession(BOOLEAN, {{}, 1..(MaxVersion - 1)}, {{1}})

\* handleEditInterview: the row's interview, as the store holds it, is selected
\* and the modal opened
EditInterview(id) ==
    /\ ~modalOpen
    /\ id \in DOMAIN interviews
    /\ opened < MaxOpens
    /\ opened' = opened + 1
    /\ LET iv == Some(InterviewRow(id, interviews[id]))
       IN /\ Render(TRUE, iv, selectedVersion, tasks, loadingVersions, loadingVersionData,
                    answers)
          /\ Cardinality(tasks') <= MaxTasks
    /\ UNCHANGED <<libVars, refreshVars, guides, interviews, prompts, versions, backend, listing, toast,
                   isAdmin, alignVars, guideVars>>

\* the dialog is dismissed: onOpenChange(false)
CloseModal ==
    /\ modalOpen
    /\ Render(FALSE, interview, selectedVersion, tasks, loadingVersions, loadingVersionData,
              answers)
    /\ UNCHANGED <<libVars, refreshVars, guides, interviews, prompts, versions, backend, listing, opened, toast,
                   isAdmin, alignVars, guideVars>>

\* the version Select: onValueChange => setSelectedVersion(parseInt(value))
SelectVersion(k) ==
    /\ modalOpen /\ interview # None /\ ~isAdmin
    /\ ~loadingVersionData
    /\ k \in 1..Len(versions)
    /\ Render(modalOpen, interview, Some(versions[k].version), tasks, loadingVersions,
              loadingVersionData, answers)
    /\ Cardinality(tasks') <= MaxTasks
    /\ UNCHANGED <<libVars, refreshVars, guides, interviews, prompts, versions, backend, listing, opened, toast,
                   isAdmin, alignVars, guideVars>>

\* loadVersions: listAnalysis resolves with the pair's versions in some order
ListResolves(t) ==
    /\ t \in tasks /\ t.kind \in {"loadVersions", "save"} /\ t.stage = "list"
    /\ \E order \in ListOrders(DOMAIN backend[t.iv.audioId]) :
          /\ tasks' = (tasks \ {t}) \cup {[t EXCEPT !.stage = "models", !.list = order]}
          /\ listing' = Some([id |-> t.iv.audioId, outcome |-> IF order = <<>> THEN "empty" ELSE "listed"])
    /\ UNCHANGED <<libVars, refreshVars, shownVars, alignVars, isAdmin, modalOpen, interview, versions,
                   selectedVersion, loadingVersions, loadingVersionData, backend, opened, toast, guideVars>>

\* loadVersions: listAnalysis rejects; the catch logs, finally clears the flag
LoadVersionsFails(t) ==
    /\ t \in tasks /\ t.kind = "loadVersions" /\ t.stage = "list"
    /\ tasks' = tasks \ {t}
    /\ loadingVersions' = FALSE
    /\ listing' = Some([id |-> t.iv.audioId, outcome |-> "failed"])
    /\ UNCHANGED <<libVars, refreshVars, shownVars, alignVars, isAdmin, modalOpen, interview, versions,
                   selectedVersion, loadingVersionData, backend, opened, toast, guideVars>>

\* the per-version getAnalysis calls of one Promise.all: all resolve, or all
\* reject (each rejection is swallowed and leaves the model name empty)
FetchOutcomes(list) == {Range(list), {}}

\* the state the sorted rows leave: setVersions(sorted) and, for a non-empty
\* list, setSelectedVersion(sorted[0].version)
SelectedAfter(sorted) ==
    IF Len(sorted) > 0 THEN Some(sorted[1].version) ELSE selectedVersion

\* loadVersions: every per-version getAnalysis has settled (some may have failed)
LoadVersionsDone(t) ==
    /\ t \in tasks /\ t.kind = "loadVersions" /\ t.stage = "models"
    /\ \E fetched \in FetchOutcomes(t.list) :
          LET sorted == SortByVersionDesc(versionsWithModel(backend, t.iv.audioId, t.list, fetched))
          IN /\ versions' = sorted
             /\ Render(modalOpen, interview, SelectedAfter(sorted), tasks \ {t}, FALSE,
                       loadingVersionData, answers)
    /\ UNCHANGED <<libVars, refreshVars, guides, interviews, prompts, backend, listing, opened, toast, isAdmin, alignVars, guideVars>>

\* the data load: getAnalysis resolves and the effect runs to its end
LoadDataResolves(t) ==
    /\ t \in tasks /\ t.kind = "loadData"
    /\ BackendGetAnalysis(backend, t.iv.audioId, getAnalysisQuery(t.opts)) # None
    /\ LET a == BackendGetAnalysis(backend, t.iv.audioId, getAnalysisQuery(t.opts))[1]
       IN /\ prompts' = EffectPrompts(a)
          /\ IF EffectMaps(guides, t.iv.guideId, a)
             THEN LET mapped == EffectMapped(guides, t.iv.guideId, a, None)
                  IN /\ answers' = mapped
                     /\ interviews' = updateInterview(interviews, t.iv.id, mapped,
                                                      StatusFromModel(a.model))
             ELSE UNCHANGED <<answers, interviews, opened, guideVars>>
    /\ tasks' = tasks \ {t}
    /\ loadingVersionData' = FALSE
    /\ UNCHANGED <<libVars, refreshVars, guides, alignVars, isAdmin, modalOpen, interview, versions,
                   selectedVersion, loadingVersions, backend, listing, opened, toast, guideVars>>

\* the data load: getAnalysis rejects (network error, or 404 for a missing version)
LoadDataFails(t) ==
    /\ t \in tasks /\ t.kind = "loadData"
    /\ tasks' = tasks \ {t}
    /\ loadingVersionData' = FALSE
    /\ UNCHANGED <<libVars, refreshVars, shownVars, alignVars, isAdmin, modalOpen, interview, versions,
                   selectedVersion, loadingVersions, backend, listing, opened, toast, guideVars>>

\* the manual versions written so far, and the posts still in flight
SavesBegun ==
    Cardinality({p \in {<<id, v>> : id \in ModalIds, v \in 0..(MaxVersion + MaxSaves)} :
                    /\ p[2] \in DOMAIN backend[p[1]]
                    /\ backend[p[1]][p[2]].model = Some("gpt-5.1-human-edit")})
    + Cardinality({t \in tasks : t.kind = "save" /\ t.stage = "post"})

\* handleSave up to its first await: the payload is built and posted
Save ==
    /\ modalOpen /\ interview # None
    /\ SavesBegun < MaxSaves
    /\ tasks' = tasks \cup {Task("save", "post", interview[1], None, NoOpts, <<>>,
                                 [answers |-> answers, prompts |-> prompts])}
    /\ Cardinality(tasks') <= MaxTasks
    /\ UNCHANGED <<libVars, refreshVars, shownVars, alignVars, isAdmin, modalOpen, interview, versions,
                   selectedVersion, loadingVersions, loadingVersionData, backend, listing,
                   toast, opened, guideVars>>

\* handleSave: createManualAnalysis resolved; the store is updated, and the
\* main page goes on to reload the versions while the admin panel closes
SavePosted(t) ==
    /\ t \in tasks /\ t.kind = "save" /\ t.stage = "post"
    /\ backend' = BackendCreateManual(backend, t.iv.audioId,
                                      resultPayload(t.saved.answers, t.saved.prompts))
    /\ interviews' = updateInterview(interviews, t.iv.id, t.saved.answers,
                                     "gpt-5.1-human-edit")
    /\ IF isAdmin
       THEN /\ toast' = "Interview approved (human-edited)"
            /\ Render(FALSE, interview, selectedVersion, tasks \ {t}, loadingVersions,
                      loadingVersionData, answers)
       ELSE /\ toast' = toast
            /\ Render(modalOpen, interview, selectedVersion,
                      (tasks \ {t}) \cup {[t EXCEPT !.stage = "list"]}, loadingVersions,
                      loadingVersionData, answers)
    /\ UNCHANGED <<libVars, refreshVars, guides, prompts, versions, listing, opened, isAdmin, alignVars, guideVars>>

\* a save that writes the answers into the store before it posts them, and
\* then fails
SaveFailsAfterUpdate(t) ==
    /\ t \in tasks /\ t.kind = "save" /\ t.stage \in {"post", "list"}
    /\ tasks' = tasks \ {t}
    /\ toast' = "Failed to save interview"
    /\ interviews' = updateInterview(interviews, t.iv.id, t.saved.answers, "gpt-5.1-human-edit")
    /\ UNCHANGED <<libVars, refreshVars, guides, answers, prompts, alignVars, isAdmin,
                   modalOpen, interview, versions, selectedVersion, loadingVersions,
                   loadingVersionData, backend, listing, opened, guideVars>>

\* handleSave: createManualAnalysis or the listAnalysis after it rejects
SaveFails(t) ==
    /\ t \in tasks /\ t.kind = "save" /\ t.stage \in {"post", "list"}
    /\ tasks' = tasks \ {t}
    /\ toast' = "Failed to save interview"
    /\ listing' = IF t.stage = "list"
                  THEN Some([id |-> t.iv.audioId, outcome |-> "failed"])
                  ELSE listing
    /\ UNCHANGED <<libVars, refreshVars, shownVars, alignVars, isAdmin, modalOpen, interview, versions,
                   selectedVersion, loadingVersions, loadingVersionData, backend, opened, guideVars>>

\* handleSave: the reloaded rows are set and the first of them selected
SaveDone(t) ==
    /\ t \in tasks /\ t.kind = "save" /\ t.stage = "models"
    /\ \E fetched \in FetchOutcomes(t.list) :
          LET sorted == SortByVersionDesc(versionsWithModel(backend, t.iv.audioId, t.list, fetched))
          IN /\ versions' = sorted
             /\ Render(modalOpen, interview, SelectedAfter(sorted), tasks \ {t},
                       loadingVersions, loadingVersionData, answers)
    /\ toast' = "Saved as new version"
    /\ UNCHANGED <<libVars, refreshVars, guides, interviews, prompts, backend, listing, opened, isAdmin, alignVars, guideVars>>

NextModal ==
    \/ \E id \in DOMAIN interviews : EditInterview(id)
    \/ CloseModal
    \/ \E k \in 1..MaxVersion + 1 : SelectVersion(k)
    \/ \E t \in tasks : ListResolves(t)
    \/ \E t \in tasks : LoadVersionsFails(t)
    \/ \E t \in tasks : LoadVersionsDone(t)
    \/ \E t \in tasks : LoadDataResolves(t)
    \/ \E t \in tasks : LoadDataFails(t)

SpecModal == InitModal /\ [][NextModal]_vars

NextSave ==
    \/ NextModal
    \/ Save
    \/ \E t \in tasks : SavePosted(t)
    \/ \E t \in tasks : SaveFails(t)
    \/ \E t \in tasks : SaveDone(t)

SpecSave == InitSave /\ [][NextSave]_vars

-----------------------------------------------------------------------------
(* The interviews store under list refreshes, next to the modal *)

MaxRefreshes == 1

EditedText == <<"e", "d">>

\* handleAnswerChange(index, "answer", value): the answer on screen is replaced
EditAnswer(k) ==
    /\ modalOpen /\ interview # None
    /\ k \in 1..Len(answers)
    /\ answers[k].answer # EditedText
    /\ answers' = [answers EXCEPT ![k].answer = EditedText]
    /\ UNCHANGED <<libVars, refreshVars, guides, interviews, prompts, modalVars, alignVars,
                   guideVars>>

\* the audios with at least one analysis version: what listAnalysis({latestOnly}) lists
ListedAudios(b) == {a \in DOMAIN b : DOMAIN b[a] # {}}

\* loadInterviews is called (on mount, by the 5-second interval, after a deletion)
\* and suspends at listAnalysis
LoadInterviews ==
    /\ refreshing = None
    /\ refreshes < MaxRefreshes
    /\ refreshing' = Some([stage |-> "list", status |-> <<>>])
    /\ UNCHANGED <<libVars, refreshes, shownVars, modalVars, alignVars, guideVars>>

\* loadInterviews: listAnalysis or listRecords rejects; the catch keeps the store
LoadInterviewsFails ==
    /\ refreshing # None /\ refreshing[1].stage = "list"
    /\ refreshing' = None
    /\ refreshes' = refreshes + 1
    /\ UNCHANGED <<libVars, shownVars, modalVars, alignVars, guideVars>>

\* (latest?.model || latest?.payload?.model || ""), then (model || "Draft")
LatestStatus(b, audio) ==
    LET latest == BackendGetAnalysis(b, audio, [version |-> None, latest |-> TRUE])
    IN IF latest # None THEN StatusFromModel(latest[1].model) ELSE "Draft"

\* loadInterviews: the analyses are listed and each one's latest payload fetched
\* for its model name (every getAnalysis resolves, or every one rejects and the
\* catch leaves the model empty); an empty listing empties the store
LoadInterviewsFetches ==
    /\ refreshing # None /\ refreshing[1].stage = "list"
    /\ IF ListedAudios(backend) = {}
       THEN /\ interviews' = <<>>
            /\ refreshing' = None
            /\ refreshes' = refreshes + 1
       ELSE /\ \E ok \in BOOLEAN :
                  refreshing' = Some([stage |-> "set",
                                      status |-> [a \in ListedAudios(backend) |->
                                                    IF ok THEN LatestStatus(backend, a)
                                                    ELSE "Draft"]])
            /\ UNCHANGED <<interviews, refreshes>>
    /\ UNCHANGED <<libVars, guides, answers, prompts, modalVars, alignVars, guideVars>>

\* loadInterviews: set({ interviews: out }), every row under a fresh id and with
\* answers: []
LoadInterviewsSets ==
    /\ refreshing # None /\ refreshing[1].stage = "set"
    /\ LET status == refreshing[1].status
           n == refreshes + 1
       IN interviews' = [id \in {Uuid(a, n) : a \in DOMAIN status} |->
                            StoreRow(CHOOSE a \in DOMAIN status : Uuid(a, n) = id,
                                     status[CHOOSE a \in DOMAIN status : Uuid(a, n) = id])]
    /\ refreshing' = None
    /\ refreshes' = refreshes + 1
    /\ UNCHANGED <<libVars, guides, answers, prompts, modalVars, alignVars, guideVars>>

InitRefresh == InitSession(BOOLEAN, {{1}}, {{}})

NextRefresh ==
    \/ NextSave
    \/ \E k \in 1..MaxGuideLen : EditAnswer(k)
    \/ LoadInterviews
    \/ LoadInterviewsFails
    \/ LoadInterviewsFetches
    \/ LoadInterviewsSets

SpecRefresh == InitRefresh /\ [][NextRefresh]_vars

-----------------------------------------------------------------------------
(* Guide upload and the two guide loaders *)

NL == "\n"
CR == "\r"

RECURSIVE SplitOn(_, _)
\* String.prototype.split(sep) for a one-character separator
SplitOn(s, sep) ==
    LET hits == {i \in 1..Len(s) : s[i] = sep}
    IN IF hits = {} THEN <<s>>
       ELSE LET i == CHOOSE k \in hits : \A j \in hits : k <= j
            IN <<SubSeq(s, 1, i - 1)>> \o SplitOn(SubSeq(s, i + 1, Len(s)), sep)

\* text.split(/\r?\n/): a carriage return before the line feed goes with it
SplitLines(s) ==
    LET pieces == SplitOn(s, NL)
    IN [k \in 1..Len(pieces) |->
          IF k < Len(pieces) /\ pieces[k] # <<>> /\ pieces[k][Len(pieces[k])] = CR
          THEN SubSeq(pieces[k], 1, Len(pieces[k]) - 1)
          ELSE pieces[k]]

RECURSIVE Join(_, _)
\* Array.prototype.join(sep)
Join(lines, sep) ==
    IF lines = <<>> THEN <<>>
    ELSE IF Len(lines) = 1 THEN lines[1]
    ELSE lines[1] \o sep \o Join(Tail(lines), sep)

\* s.replace(/\r\n/g, "\n")
ReplaceCRLF(s) ==
    LET Keep(i) == ~(s[i] = CR /\ i < Len(s) /\ s[i + 1] = NL)
        kept == {i \in 1..Len(s) : Keep(i)}
        Nth(n) == CHOOSE i \in kept : Cardinality({j \in kept : j <= i}) = n
    IN [n \in 1..Cardinality(kept) |-> s[Nth(n)]]

\* normalized = s.replace(/\r\n/g, "\n").trim(); normalized.split("\n").join("\n\n")
DoubleSpaced(s) == Join(SplitOn(Trim(ReplaceCRLF(s)), NL), <<NL, NL>>)

Quoted(s) == <<"\"">> \o s \o <<"\"">>

\* JSON.stringify of an array of strings (of characters that need no escape)
StringifyArray(arr) ==
    <<"[">> \o Join([k \in 1..Len(arr) |-> Quoted(arr[k])], <<",">>) \o <<"]">>

\* JSON.stringify of a guide document {questions?, prompts?}
Stringify(doc) ==
    LET q == IF doc.questions # None
             THEN <<QuestionsKey \o StringifyArray(doc.questions[1])>> ELSE <<>>
        p == IF doc.prompts # None
             THEN <<PromptsKey \o StringifyArray(doc.prompts[1])>> ELSE <<>>
    IN <<"{">> \o Join(q \o p, <<",">>) \o <<"}">>

MaxDocLen == 2

\* the guide documents an upload can carry
GuideDocs ==
    {[questions |-> Some(qs), prompts |-> None] :
        qs \in SeqsUpTo({Q1, Q2}, MaxDocLen) \ {<<>>}}

\* JSON.parse: the document whose serialisation the text is, None where it throws
JsonParse(text) ==
    LET hits == {d \in GuideDocs : Stringify(d) = Trim(text)}
    IN IF hits = {} THEN None ELSE Some(CHOOSE d \in hits : TRUE)

\* the shapes GET /api/questionnaires/{id} may answer in
ResponseShapes == {"json", "text", "questionsText", "textUrl", "plain"}

\* getQuestionnaire: the text it returns for the stored blob under each shape
getQuestionnaireText(shape, stored, doc) ==
    CASE shape = "questionsText" -> DoubleSpaced(Join(OrEmpty(doc.questions), <<NL>>))
      [] shape = "text"          -> stored
      [] shape = "textUrl"       -> DoubleSpaced(stored)
      [] shape = "json"          -> Stringify(doc)
      [] OTHER                   -> DoubleSpaced(stored)

\* AnalyzeSection.loadGuidesFromAzure: one question per non-blank line of the text
AnalyzeSectionGuides(id, text) ==
    LET NonBlank(l) == l # <<>>
        questions == SelectSeq([k \in 1..Len(SplitLines(text)) |-> Trim(SplitLines(text)[k])],
                               NonBlank)
    IN IF Len(questions) > 0
       THEN <<[id |-> id, questions |-> questions, prompts |-> <<>>]>>
       ELSE <<>>

Digits == {"0", "1", "2", "3", "4", "5", "6", "7", "8", "9"}

\* trimmed.match(/^\d+\.\s*(.+)$/): the line without its leading number
StripNumbering(trimmed) ==
    LET ends == {n \in 1..Len(trimmed) :
                    /\ \A i \in 1..n : trimmed[i] \in Digits
                    /\ n + 1 <= Len(trimmed) /\ trimmed[n + 1] = "."}
    IN IF ends = {} THEN trimmed
       ELSE LET n == CHOOSE e \in ends : TRUE
                rest == SubSeq(trimmed, n + 2, Len(trimmed))
                lead == {k \in 0..Len(rest) : \A i \in 1..k : rest[i] \in WS}
                k == CHOOSE m \in lead : \A j \in lead : j <= m
            IN IF k = Len(rest)
               THEN (IF rest = <<>> THEN trimmed ELSE <<rest[Len(rest)]>>)
               ELSE SubSeq(rest, k + 1, Len(rest))

\* AdminGuidesSection.parseQuestionnaireData, on getQuestionnaire's return value
parseQuestionnaireData(text) ==
    LET parsedJson == IF text # <<>> THEN JsonParse(text) ELSE None
        NonBlank(l) == l # <<>>
        lines == SplitOn(text, NL)
        trimmedLines == SelectSeq([k \in 1..Len(lines) |-> Trim(lines[k])], NonBlank)
    IN IF parsedJson # None
       THEN [questions |-> OrEmpty(parsedJson[1].questions),
             prompts |-> OrEmpty(parsedJson[1].prompts)]
       ELSE [questions |-> [k \in 1..Len(trimmedLines) |-> StripNumbering(trimmedLines[k])],
             prompts |-> <<>>]

\* AdminGuidesSection.loadGuidesFromAzure
AdminGuidesSectionGuides(id, text) ==
    LET parsed == parseQuestionnaireData(text)
    IN IF Len(parsed.questions) > 0 \/ Len(parsed.prompts) > 0
       THEN <<[id |-> id, questions |-> parsed.questions, prompts |-> parsed.prompts]>>
       ELSE <<>>

\* the analysis the backend holds for a guide document: entry k answers question k
AnswerOf(k) == <<"A", ToString(k)>>

AnalysisOf(doc) ==
    [model |-> Some("gpt-5.1"),
     questions |-> [k \in 1..Len(OrEmpty(doc.questions)) |-> Entry(Some(k - 1), Some(AnswerOf(k)))],
     prompts |-> <<>>]

-----------------------------------------------------------------------------
(* Guide specification: upload, load by either component, then the modal *)

InitGuide ==
    /\ \E doc \in GuideDocs :
          /\ jsonData = Some(doc)
          /\ analysis = AnalysisOf(doc)
    /\ responseShape \in ResponseShapes
    /\ questionnaireBlob = None
    /\ guidesLoader = "none"
    /\ guides = <<>>
    /\ answers = <<>>
    /\ prompts = <<>>
    /\ interviews = [i \in {TheInterviewId} |-> [status |-> "Draft", answers |-> <<>>]]
    /\ loadPc = "idle"
    /\ ModalIdle
    /\ LibIdle
    /\ RefreshIdle

\* handleFileUpload / handleSaveDirectInput: the document is serialised and stored
UploadGuide ==
    /\ questionnaireBlob = None
    /\ questionnaireBlob' = Some(Stringify(jsonData[1]))
    /\ UNCHANGED <<libVars, refreshVars, jsonData, responseShape, guidesLoader, shownVars, alignVars, modalVars>>

\* AnalyzeSection mounts: loadGuidesFromAzure runs through, or getQuestionnaire
\* rejects for the guide, which is then skipped
LoadGuidesAnalyzeSection ==
    /\ questionnaireBlob # None /\ loadPc = "idle"
    /\ \E ok \in BOOLEAN :
          guides' = IF ok
                    THEN AnalyzeSectionGuides(TheGuideId,
                             getQuestionnaireText(responseShape, questionnaireBlob[1], jsonData[1]))
                    ELSE <<>>
    /\ guidesLoader' = "AnalyzeSection"
    /\ UNCHANGED <<libVars, refreshVars, jsonData, questionnaireBlob, responseShape, interviews, answers, prompts,
                   alignVars, modalVars>>

\* AdminGuidesSection mounts or has uploaded: loadGuidesFromAzure
LoadGuidesAdminSection ==
    /\ questionnaireBlob # None /\ loadPc = "idle"
    /\ \E ok \in BOOLEAN :
          guides' = IF ok
                    THEN AdminGuidesSectionGuides(TheGuideId,
                             getQuestionnaireText(responseShape, questionnaireBlob[1], jsonData[1]))
                    ELSE <<>>
    /\ guidesLoader' = "AdminGuidesSection"
    /\ UNCHANGED <<libVars, refreshVars, jsonData, questionnaireBlob, responseShape, interviews, answers, prompts,
                   alignVars, modalVars>>

\* the interview of the guide is opened: the data-load effect requests its analysis
OpenForGuide ==
    /\ guidesLoader # "none" /\ loadPc = "idle"
    /\ loadPc' = "awaiting"
    /\ UNCHANGED <<libVars, refreshVars, analysis, shownVars, modalVars, guideVars>>

NextGuide ==
    \/ UploadGuide
    \/ LoadGuidesAnalyzeSection
    \/ LoadGuidesAdminSection
    \/ OpenForGuide
    \/ LoadAnalysisOk
    \/ LoadAnalysisFail

SpecGuide == InitGuide /\ [][NextGuide]_vars

-----------------------------------------------------------------------------
(* Classifier specification: isValidQuestionText applied to drawn lines *)

MaxTextLen == 3

TextChars == {" ", "{", "]", ",", "x"}

LinePromptsKey == PromptsKey \o <<" ", "[">>

\* lines around the two keys: the key line itself, padded, with other text after
\* the colon, with the bracket set against the colon, and with text before the key
KeyTexts ==
    UNION {{k, <<" ">> \o k \o <<"\t">>, SubSeq(k, 1, Len(k) - 2),
            SubSeq(k, 1, Len(k) - 2) \o <<"x">>, SubSeq(k, 1, Len(k) - 2) \o <<"[">>,
            SubSeq(k, 2, Len(k)), <<"x">> \o k} : k \in {LineQuestionsKey, LinePromptsKey}}

ClassifierTexts == SeqsUpTo(TextChars, MaxTextLen) \cup KeyTexts \cup {Q1, WhatCrops, Fence}

ShownIdle ==
    /\ guides = <<>>
    /\ interviews = <<>>
    /\ answers = <<>>
    /\ prompts = <<>>

AlignIdle ==
    /\ analysis = [model |-> None, questions |-> <<>>, prompts |-> <<>>]
    /\ loadPc = "idle"

\* the variables of azure.ts while no call is driven
AzureIdle ==
    /\ baseUrl = TRUE
    /\ op = "none"
    /\ maxAttempts = 0
    /\ call = <<>>
    /\ response = None
    /\ outcome = None
    /\ mounted = TRUE
    /\ versionFetch = None
    /\ upload = None
    /\ roundTrip = None
    /\ loads = NoLoads
    /\ analyze = None

InitClassify ==
    /\ guideLine \in ClassifierTexts
    /\ classified = None
    /\ AzureIdle
    /\ ShownIdle
    /\ AlignIdle
    /\ ModalIdle
    /\ GuideIdle
    /\ RefreshIdle

\* one call of isValidQuestionText on the drawn line
Classify ==
    /\ classified = None
    /\ classified' = Some(isValidQuestionText(guideLine))
    /\ UNCHANGED <<guideLine, baseUrl, op, maxAttempts, call, response, outcome, mounted,
                   versionFetch, upload, roundTrip, loads, analyze, alignVars, shownVars, modalVars, guideVars, refreshVars>>

NextClassify == Classify

SpecClassify == InitClassify /\ [][NextClassify]_vars

-----------------------------------------------------------------------------
(* azure.ts: the exported functions, one call at a time *)

\* the maxAttempts default of pollForTranscripts, and the largest explicit argument
DefaultMaxAttempts == 30
MaxAttemptsArg == 2

PlainOps == {"createUploadUrl", "createQuestionnaireUploadUrl", "listQuestionnaires",
             "deleteQuestionnaire", "getAnalysis", "runAnalysis", "createManualAnalysis",
             "deleteAnalysis"}

SingleOps == PlainOps \cup {"listRecords", "listAnalysis", "deleteRecord", "getQuestionnaire",
                            "getTranscript", "getTranslation"}

PollOp == "pollForTranscripts"

\* what fetch settles with: a rejection, or a response with a status and a body.
\* Bodies: a JSON object with a text field, a JSON string, the JSON string "",
\* another JSON object, a JSON object naming a text blob's URL, JSON null, text
\* that is no JSON, and no body at all
Bodies == {"jsonText", "jsonString", "jsonEmptyString", "jsonObject", "jsonTextUrl",
           "jsonNull", "notJson", "empty"}

FetchRejected == [failed |-> TRUE, status |-> 0, body |-> "empty"]

Responses ==
    {FetchRejected}
    \cup {[failed |-> FALSE, status |-> st, body |-> b] : st \in {200, 404, 500}, b \in Bodies}
    \cup {[failed |-> FALSE, status |-> st, body |-> "empty"] : st \in {202, 204}}

\* Response.ok
Ok(resp) == resp.status \in 200..299

\* whether response.json() resolves
JsonParses(resp) == resp.body \notin {"notJson", "empty"}

Returned(what, data) == [kind |-> "value", what |-> what, data |-> data]
Threw(what) == [kind |-> "error", what |-> what, data |-> ""]

\* JSON.stringify(data) of an object body
Stringified == "{...}"

\* getTranscript: data is the string itself, or data.text || data.transcript ||
\* JSON.stringify(data); data.text of null is a TypeError
getTranscript(resp) ==
    IF resp.failed THEN Threw("fetch")
    ELSE IF resp.status = 202 THEN Returned("pending", "")
    ELSE IF ~Ok(resp) THEN Threw("http")
    ELSE IF ~JsonParses(resp) THEN Threw("parse")
    ELSE CASE resp.body = "jsonString" -> Returned("ready", "S")
           [] resp.body = "jsonEmptyString" -> Returned("ready", "")
           [] resp.body = "jsonText" -> Returned("ready", "T")
           [] resp.body = "jsonNull" -> Threw("type")
           [] OTHER -> Returned("ready", Stringified)

\* getTranslation: a string is parsed again and kept as it is when that fails; an
\* object gives translatedTranscript || text || translation || JSON.stringify(data);
\* anything else is stringified
getTranslation(resp) ==
    IF resp.failed THEN Threw("fetch")
    ELSE IF resp.status = 202 THEN Returned("pending", "")
    ELSE IF ~Ok(resp) THEN Threw("http")
    ELSE IF ~JsonParses(resp) THEN Threw("parse")
    ELSE CASE resp.body = "jsonString" -> Returned("ready", "S")
           [] resp.body = "jsonEmptyString" -> Returned("ready", "")
           [] resp.body = "jsonText" -> Returned("ready", "T")
           [] resp.body = "jsonNull" -> Returned("ready", "null")
           [] OTHER -> Returned("ready", Stringified)

\* listRecords: 204 and an unreadable body are an empty list
listRecords(resp) ==
    IF resp.failed THEN Threw("fetch")
    ELSE IF resp.status = 204 THEN Returned("list", "")
    ELSE IF ~Ok(resp) THEN Threw("http")
    ELSE Returned("list", "")

\* listAnalysis: resp.json().catch(() => ({})), then data?.analysis || []
listAnalysis(resp) ==
    IF resp.failed THEN Threw("fetch")
    ELSE IF ~Ok(resp) THEN Threw("http")
    ELSE Returned("list", "")

\* deleteRecord: a 404 is returned as { deleted: [], missing: [audioId] }
deleteRecord(resp) ==
    IF resp.failed THEN Threw("fetch")
    ELSE IF resp.status = 404 THEN Returned("missing", "")
    ELSE IF ~Ok(resp) THEN Threw("http")
    ELSE IF resp.body = "jsonNull" THEN Threw("type")
    ELSE Returned("deleted", "")

\* the functions that throw on every response that is not ok and return the
\* parsed body otherwise (deleteQuestionnaire and listQuestionnaires read a
\* property of it)
plainCall(name, resp) ==
    IF resp.failed THEN Threw("fetch")
    ELSE IF ~Ok(resp) THEN Threw("http")
    ELSE IF ~JsonParses(resp) THEN Threw("parse")
    ELSE IF resp.body = "jsonNull" /\ name \in {"deleteQuestionnaire", "listQuestionnaires"}
         THEN Threw("type")
    ELSE Returned("json", "")

\* getQuestionnaire up to the point where it may follow a blob URL: a body that
\* is no JSON is taken as plain text
getQuestionnaire(resp) ==
    IF resp.failed THEN Threw("fetch")
    ELSE IF ~Ok(resp) THEN Threw("http")
    ELSE CASE resp.body = "jsonText" -> Returned("questionnaire", "T")
           [] resp.body \in {"jsonNull", "empty"} -> Returned("questionnaire", "")
           [] resp.body = "notJson" -> Returned("questionnaire", "plain")
           [] OTHER -> Returned("questionnaire", Stringified)

\* !text && possibleUrl: the text blob's URL is followed
FollowsBlobUrl(resp) == ~resp.failed /\ Ok(resp) /\ resp.body = "jsonTextUrl"

ResultOf(name, resp) ==
    CASE name = "getTranscript" -> getTranscript(resp)
      [] name = "getTranslation" -> getTranslation(resp)
      [] name = "listRecords" -> listRecords(resp)
      [] name = "listAnalysis" -> listAnalysis(resp)
      [] name = "deleteRecord" -> deleteRecord(resp)
      [] name = "getQuestionnaire" -> getQuestionnaire(resp)
      [] OTHER -> plainCall(name, resp)

RequestKinds == {"api", "blob", "transcript", "translation"}

\* a call before its first statement: no request issued, the poll's locals unset.
\* asked counts the requests issued since the call, or the poll's round, began
NewCall ==
    [pc |-> "start", attempts |-> 0, hindiTranscript |-> None, englishTranscript |-> None,
     asked |-> [k \in RequestKinds |-> 0], failed |-> {}, failedBefore |-> {}]

Asks(c, kind) == [c EXCEPT !.asked[kind] = @ + 1]

\* a poll that returns as soon as one of the two texts is there
AfterTranslationEither(c) ==
    IF c.hindiTranscript # None \/ c.englishTranscript # None
    THEN [c EXCEPT !.pc = "returned"]
    ELSE [c EXCEPT !.pc = "sleep"]

\* pollForTranscripts, from the test after the translation's try block on
AfterTranslation(c) ==
    IF c.hindiTranscript # None /\ c.englishTranscript # None
    THEN [c EXCEPT !.pc = "returned"]
    ELSE [c EXCEPT !.pc = "sleep"]

\* pollForTranscripts, from if (!englishTranscript) on: getTranslation throws at
\* once without a base URL, and suspends at its fetch with one
EnterTranslation(c) ==
    IF c.englishTranscript = None
    THEN IF baseUrl
         THEN [Asks(c, "translation") EXCEPT !.pc = "translation"]
         ELSE AfterTranslation([c EXCEPT !.failed = @ \cup {"translation"}])
    ELSE AfterTranslation(c)

\* pollForTranscripts, from the loop's test on
EnterRound(c) ==
    IF c.attempts < maxAttempts
    THEN LET round == [c EXCEPT !.attempts = @ + 1,
                                !.asked = [k \in RequestKinds |-> 0],
                                !.failedBefore = c.failed,
                                !.failed = {}]
         IN IF round.hindiTranscript = None
            THEN IF baseUrl
                 THEN [Asks(round, "transcript") EXCEPT !.pc = "transcript"]
                 ELSE EnterTranslation([round EXCEPT !.failed = @ \cup {"transcript"}])
            ELSE EnterTranslation(round)
    ELSE [c EXCEPT !.pc = "returned"]

\* a try block that gives a text up for good once its request has failed
AfterReplyGivesUp(c, kind, r) ==
    IF r.kind = "error"
    THEN IF kind = "transcript"
         THEN [c EXCEPT !.failed = @ \cup {kind}, !.hindiTranscript = Some("")]
         ELSE [c EXCEPT !.failed = @ \cup {kind}, !.englishTranscript = Some("")]
    ELSE IF r.what = "ready" /\ r.data # ""
         THEN IF kind = "transcript" THEN [c EXCEPT !.hindiTranscript = Some(r.data)]
              ELSE [c EXCEPT !.englishTranscript = Some(r.data)]
         ELSE c

\* the try block around getTranscript or getTranslation: a ready response with a
\* non-empty text sets the local, a rejection is swallowed
AfterReply(c, kind, r) ==
    IF r.kind = "error" THEN [c EXCEPT !.failed = @ \cup {kind}]
    ELSE IF r.what = "ready" /\ r.data # ""
         THEN IF kind = "transcript" THEN [c EXCEPT !.hindiTranscript = Some(r.data)]
              ELSE [c EXCEPT !.englishTranscript = Some(r.data)]
         ELSE c

PollResult(c) == Returned("transcripts", <<c.hindiTranscript, c.englishTranscript>>)

\* the poll's state once its synchronous run has stopped at c
PollStops(c) ==
    /\ call' = c
    /\ outcome' = IF c.pc = "returned" THEN Some(PollResult(c)) ELSE outcome

InitAzure ==
    /\ baseUrl \in BOOLEAN
    /\ op \in SingleOps \cup {PollOp}
    /\ maxAttempts \in IF op = PollOp THEN (0..MaxAttemptsArg) \cup {DefaultMaxAttempts} ELSE {0}
    /\ call = NewCall
    /\ response = None
    /\ outcome = None
    /\ mounted = TRUE
    /\ versionFetch = None
    /\ upload = None
    /\ roundTrip = None
    /\ loads = NoLoads
    /\ analyze = None
    /\ guideLine = <<>>
    /\ classified = None
    /\ ShownIdle
    /\ AlignIdle
    /\ ModalIdle
    /\ GuideIdle
    /\ RefreshIdle

AzureFrame == UNCHANGED <<guideLine, classified, baseUrl, op, maxAttempts, versionFetch, upload, roundTrip, loads, analyze, alignVars, shownVars,
                          modalVars, guideVars, refreshVars>>

\* a function other than the poll is called: the BASE_URL guard, then its fetch
CallSingle ==
    /\ op \in SingleOps /\ call.pc = "start"
    /\ IF ~baseUrl
       THEN /\ call' = [call EXCEPT !.pc = "threw"]
            /\ outcome' = Some(Threw("config"))
       ELSE /\ call' = [Asks(call, "api") EXCEPT !.pc = "fetch"]
            /\ outcome' = outcome
    /\ UNCHANGED <<response, mounted>>
    /\ AzureFrame

\* the fetch settles and the function runs to its return, its throw, or (in
\* getQuestionnaire) the fetch of the text blob
SingleResponds ==
    /\ op \in SingleOps /\ call.pc = "fetch"
    /\ \E resp \in Responses :
          /\ response' = Some(resp)
          /\ IF op = "getQuestionnaire" /\ FollowsBlobUrl(resp)
             THEN /\ call' = [Asks(call, "blob") EXCEPT !.pc = "blob"]
                  /\ outcome' = outcome
             ELSE /\ call' = [call EXCEPT !.pc = IF ResultOf(op, resp).kind = "error"
                                                 THEN "threw" ELSE "returned"]
                  /\ outcome' = Some(ResultOf(op, resp))
    /\ UNCHANGED mounted
    /\ AzureFrame

\* getQuestionnaire: the blob fetch settles; its text is used when it is ok, and
\* the stringified record when it is not or when the fetch rejected
BlobResponds ==
    /\ op = "getQuestionnaire" /\ call.pc = "blob"
    /\ \E blobOk \in BOOLEAN :
          outcome' = Some(Returned("questionnaire", IF blobOk THEN "blob text" ELSE Stringified))
    /\ call' = [call EXCEPT !.pc = "returned"]
    /\ UNCHANGED <<response, mounted>>
    /\ AzureFrame

\* pollForTranscripts is called and runs to its first await
CallPoll ==
    /\ op = PollOp /\ call.pc = "start"
    /\ PollStops(EnterRound(call))
    /\ UNCHANGED <<response, mounted>>
    /\ AzureFrame

\* the poll's getTranscript settles
TranscriptResponds ==
    /\ op = PollOp /\ call.pc = "transcript"
    /\ \E resp \in Responses :
          PollStops(EnterTranslation(AfterReply(call, "transcript", getTranscript(resp))))
    /\ UNCHANGED <<response, mounted>>
    /\ AzureFrame

\* the poll's getTranslation settles
TranslationResponds ==
    /\ op = PollOp /\ call.pc = "translation"
    /\ \E resp \in Responses :
          PollStops(AfterTranslation(AfterReply(call, "translation", getTranslation(resp))))
    /\ UNCHANGED <<response, mounted>>
    /\ AzureFrame

\* the poll's setTimeout fires
PollWakes ==
    /\ op = PollOp /\ call.pc = "sleep"
    /\ PollStops(EnterRound(call))
    /\ UNCHANGED <<response, mounted>>
    /\ AzureFrame

\* the view that started the call unmounts
Unmount ==
    /\ mounted
    /\ call.pc # "start"
    /\ mounted' = FALSE
    /\ UNCHANGED <<call, response, outcome>>
    /\ AzureFrame

PollStep == CallPoll \/ TranscriptResponds \/ TranslationResponds \/ PollWakes

NextAzure ==
    \/ CallSingle
    \/ SingleResponds
    \/ BlobResponds
    \/ PollStep
    \/ Unmount

SpecAzure == InitAzure /\ [][NextAzure]_vars

\* every fetch settles and every timer fires
SpecAzureFair == SpecAzure /\ WF_vars(PollStep)

-----------------------------------------------------------------------------
(* Claims about the guide loaders (under SpecGuide) *)

\* the blocks the uploaded document and its analysis call for
ExpectedBlocks ==
    [k \in 1..Len(OrEmpty(jsonData[1].questions)) |->
        [question |-> jsonData[1].questions[1][k], answer |-> AnswerOf(k), quotes |-> None]]

\* C4: end to end, once the uploaded JSON guide is in the guide store and its
\* analysis has been loaded, the rendered blocks pair question k with answer k,
\* whichever component loaded the guide list.
C4_EndToEnd ==
    (loadPc = "done" /\ jsonData # None /\ FindGuide(guides, TheGuideId) # None)
        => answers = ExpectedBlocks

-----------------------------------------------------------------------------
(* Claims about the version resolver (under SpecModal and SpecSave) *)

\* a step in which loadVersions or handleSave has set the rows of the listing it holds
SetsRows(t) ==
    /\ t \in tasks /\ t \notin tasks'
    /\ t.kind \in {"loadVersions", "save"} /\ t.stage = "models"

\* C5: for a non-empty listing, returned in any order, the version selected and
\* loaded as latest is the one with the maximum version number, after the load
\* on opening and after the reload that follows a manual save.
C5_LatestIsMaximum ==
    [][\A t \in tasks :
          (SetsRows(t) /\ t.list # <<>>) =>
             LET top == CHOOSE m \in Range(t.list) : \A x \in Range(t.list) : x <= m
             IN /\ selectedVersion' = Some(top)
                /\ versions'[1].version = top
                /\ BackendGetAnalysis(backend', t.iv.audioId,
                       getAnalysisQuery(DataLoadOpts(isAdmin, selectedVersion')))
                     = Some(backend'[t.iv.audioId][top])]_vars

C5_Witness ==
    /\ toast = "Saved as new version"
    /\ Len(versions) >= 3
    /\ selectedVersion = Some(Len(versions))
    /\ \A k \in 1..Len(versions) : versions[k].version = Len(versions) + 1 - k

\* C6: when version v of the list is selected, the request carries version=v
\* and is not replaced by a latest request, for every v the list can contain.
C6_RequestCarriesVersion ==
    \A t \in tasks :
        (t.kind = "loadData" /\ ~isAdmin /\ t.selected # None) =>
            /\ getAnalysisQuery(t.opts).version = t.selected
            /\ ~getAnalysisQuery(t.opts).latest

\* the listing of the opened interview's pair has failed or come back empty,
\* and no listing is in flight
ListingFailedOrEmpty ==
    /\ modalOpen /\ ~isAdmin /\ interview # None
    /\ listing # None
    /\ listing[1].id = interview[1].audioId
    /\ listing[1].outcome \in {"failed", "empty"}
    /\ \A t \in tasks : t.kind # "loadVersions"

\* C7: when the listing for the opened interview fails or returns no versions,
\* the modal shows "No versions available" (its rows are empty), so it shows no
\* version of another interview.
C7_NoVersionsAvailable ==
    ListingFailedOrEmpty => versions = <<>>

-----------------------------------------------------------------------------
(* Claims about the partitioner and the aligner (under SpecAlign) *)

\* the effect ran to its end and went through the mapping
Aligned == loadPc = "done" /\ EffectMaps(guides, TheGuideId, analysis)

\* the filtered question list, as shown: the questions of the answer blocks
ShownQuestions == [k \in 1..Len(answers) |-> answers[k].question]
ShownAnswers == [k \in 1..Len(answers) |-> answers[k].answer]

\* every prompt text known for the guide: the analysis result's and the guide's own
KnownPromptTexts ==
    {analysis.prompts[i].promptText[1] :
        i \in {j \in 1..Len(analysis.prompts) : Truthy(analysis.prompts[j].promptText)}}
    \cup Range(guides[1].prompts)

\* C1: a question whose position matches no entry's index gets an empty answer
\* whenever the entry at its array position carries an index of its own; for
\* questions [Q1,Q2] and entries [{index:1,answerSummary:A2}] the answers are ["",A2].
C1_NoPositionalGuess ==
    Aligned =>
        /\ \A k \in 1..Len(answers) :
              ( /\ \A i \in 1..Len(analysis.questions) :
                      analysis.questions[i].index # Some(k - 1)
                /\ k <= Len(analysis.questions)
                /\ IsDefined(analysis.questions[k].index) )
              => answers[k].answer = <<>>
        /\ (guides[1].questions = <<Q1, Q2>> /\ analysis.questions = <<E1>>)
              => ShownAnswers = << <<>>, A2 >>

\* positions (0-based) in the unfiltered guide list of the questions that are shown
UnfilteredPositions ==
    LET qs == guides[1].questions
        Kept(i) == /\ isValidQuestionText(qs[i])
                   /\ ~MatchesPrompt(qs[i], allPromptTexts(guides[1], analysis.prompts))
        F[i \in 0..Len(qs)] ==
            IF i = 0 THEN <<>>
            ELSE IF Kept(i) THEN Append(F[i - 1], i - 1) ELSE F[i - 1]
    IN F[Len(qs)]

\* C2: a shown question is matched to the entry whose index equals the question's
\* position in the unfiltered guide list, also when lines before it were removed.
C2_OriginalPosition ==
    Aligned =>
        \A k \in 1..Len(answers) :
            LET hit == FindByIndex(validQuestions(analysis.questions, analysis.prompts),
                                   UnfilteredPositions[k])
            IN hit # None => answers[k].answer = OrEmpty(hit[1].answerSummary)

\* C3: for an analysis question list of any length, the empty one included, the
\* effect yields one AnswerBlock per filtered question, in guide order, and a
\* question with no entry to take has answer "" and no quotes.
C3_TotalAlignment ==
    (loadPc = "done" /\ FindGuide(guides, TheGuideId) # None) =>
        LET filtered == filteredQuestionsWithIndices(guides[1], analysis.prompts, None)
        IN /\ Len(answers) = Len(filtered)
           /\ \A k \in 1..Len(answers) :
                 /\ answers[k].question = filtered[k].qText
                 /\ analysis.questions = <<>> =>
                       (answers[k].answer = <<>> /\ answers[k].quotes = None)

\* "identical, ignoring case and surrounding whitespace"
SameIgnoringCaseAndSpace(a, b) == ToLowerCase(Trim(a)) = ToLowerCase(Trim(b))

\* C8: a guide question identical, ignoring case and surrounding whitespace, to a
\* prompt text of the analysis result or of the guide is not in the filtered list.
C8_PromptLinesExcluded ==
    Aligned =>
        \A i \in 1..Len(guides[1].questions) :
            (\E p \in KnownPromptTexts : SameIgnoringCaseAndSpace(guides[1].questions[i], p))
            => guides[1].questions[i] \notin Range(ShownQuestions)

C8_Witness ==
    /\ Aligned
    /\ LinePadded \in Range(guides[1].questions)
    /\ PromptAbcd \in KnownPromptTexts
    /\ Len(answers) >= 1

\* the near-duplicate rule, stated on lengths: 5 * shorter >= 4 * longer
NearDuplicate(a, b) ==
    LET x == ToLowerCase(Trim(a))
        y == ToLowerCase(Trim(b))
    IN \/ (Len(x) <= Len(y) /\ Len(y) > 0 /\ 5 * Len(x) >= 4 * Len(y) /\ Includes(y, x))
       \/ (Len(y) <= Len(x) /\ Len(x) > 0 /\ 5 * Len(y) >= 4 * Len(x) /\ Includes(x, y))

LineExcludedByPrompt(q) ==
    \E p \in KnownPromptTexts : p # <<>> /\ (SameIgnoringCaseAndSpace(q, p) \/ NearDuplicate(q, p))

\* C9: a line whose normalised text and some prompt's are within ratio 0.8 and one
\* contains the other is excluded (two such lines for one prompt: both), and the
\* lines that pass the classifier and match no prompt are kept, in guide order.
C9_NearDuplicatesExcluded ==
    Aligned =>
        LET Keep(q) == isValidQuestionText(q) /\ ~LineExcludedByPrompt(q)
        IN ShownQuestions = SelectSeq(guides[1].questions, Keep)

C9_Witness ==
    /\ Aligned
    /\ guides[1].questions = <<LineNear, Q1, LinePadded>>
    /\ KnownPromptTexts = {PromptAbcd}
    /\ ShownQuestions = <<Q1>>

\* C10 as stated: for guide questions ["What crops do you grow?", "```"] and no
\* prompts the filtered list keeps the real question and drops the other line.
C10_FenceExcluded ==
    ( /\ Aligned
      /\ guides[1].questions = <<WhatCrops, Fence>>
      /\ KnownPromptTexts = {} )
    => ShownQuestions = <<WhatCrops>>

JsonStructureLines == {LBrace, LineQuestionsKey}

\* C10 amended: next to a real question and with no prompts, a JSON-structure line
\* (a lone brace, a "questions": [ key) is dropped and the real question kept; the
\* line "```" is no JSON structure and is kept.
C10_StructureExcluded ==
    ( /\ Aligned
      /\ Len(guides[1].questions) = 2
      /\ guides[1].questions[1] = WhatCrops
      /\ KnownPromptTexts = {} )
    => /\ guides[1].questions[2] \in JsonStructureLines => ShownQuestions = <<WhatCrops>>
       /\ guides[1].questions[2] = Fence => ShownQuestions = <<WhatCrops, Fence>>

C10_Witness ==
    /\ Aligned
    /\ guides[1].questions = <<WhatCrops, LBrace>>
    /\ KnownPromptTexts = {}
    /\ ShownQuestions = <<WhatCrops>>

-----------------------------------------------------------------------------
(* Claims about the classifier (under SpecClassify) *)

\* the line without its whitespace characters
WithoutSpace(t) == SelectSeq(t, LAMBDA c : c \notin WS)

\* "a single bracket or brace with optional trailing comma and surrounding whitespace"
SingleBracketText(t) ==
    LET core == WithoutSpace(t)
    IN \/ (Len(core) = 1 /\ core[1] \in {"[", "]", "{", "}"})
       \/ (Len(core) = 2 /\ core[1] \in {"[", "]", "{", "}"} /\ core[2] = ",")

\* the text is "questions": [ or "prompts": [ between any whitespace
KeyLineText(t) ==
    \E a, b \in 0..Len(t) :
        /\ a + b <= Len(t)
        /\ \A i \in 1..a : t[i] \in WS
        /\ \A i \in (Len(t) - b + 1)..Len(t) : t[i] \in WS
        /\ SubSeq(t, a + 1, Len(t) - b) \in {LineQuestionsKey, LinePromptsKey}

\* structural text: a bracket token, or a line that opens with one of the two keys
StructuralText(t) ==
    \/ SingleBracketText(t)
    \/ \E a \in 0..Len(t) :
          /\ \A i \in 1..a : t[i] \in WS
          /\ \E k \in {QuestionsKey, PromptsKey} :
                a + Len(k) <= Len(t) /\ SubSeq(t, a + 1, a + Len(k)) = k

\* C11: isValidQuestionText returns false for a single bracket or brace with an
\* optional trailing comma and whitespace around it, and for "questions": [ and
\* "prompts": [ with or without whitespace around them; it returns true for every
\* other non-empty text that is not structural.
C11_ClassifierContract ==
    classified # None =>
        /\ SingleBracketText(guideLine) => classified = Some(FALSE)
        /\ KeyLineText(guideLine) => classified = Some(FALSE)
        /\ (guideLine # <<>> /\ ~StructuralText(guideLine)) => classified = Some(TRUE)

C11_Witness ==
    /\ guideLine = <<"{", " ", ",">>
    /\ classified = Some(FALSE)

-----------------------------------------------------------------------------
(* Claims about the interviews store (under SpecRefresh and SpecSave) *)

\* the number of the guide's questions that pass the classifier and are no prompt
FilteredQuestionCount(guideId) ==
    IF FindGuide(guides, guideId) = None THEN 0
    ELSE Len(validGuideQuestions(FindGuide(guides, guideId)[1], <<>>))

\* C12: in every reachable state of the interviews store, each interview's answers
\* list is as long as the filtered question list of its guide.
C12_AnswersMatchGuide ==
    \A id \in DOMAIN interviews :
        Len(interviews[id].answers) = FilteredQuestionCount(TheGuideId)

HumanApproved(status) == status = "gpt-5.1-human-edit"

\* the rows the store holds for an audio
RowsOf(store, audio) == {store[id] : id \in {i \in DOMAIN store : store[i].audioId = audio}}

\* the step at which a save reports its success: the admin panel's at the post,
\* the main page's once the versions are reloaded
SaveSucceeds(t) ==
    \/ (isAdmin /\ SavePosted(t))
    \/ SaveDone(t)

\* C13: when a save has succeeded, the store holds, for the saved interview, the
\* saved answers and the status "gpt-5.1-human-edit", whatever list refresh ran
\* while the modal was open.
C13_SaveReachesStore ==
    [][\A t \in tasks :
          SaveSucceeds(t) =>
              \E row \in RowsOf(interviews', t.iv.audioId) :
                  row.answers = t.saved.answers /\ HumanApproved(row.status)]_vars

\* C14: when the write of the new manual version fails, the interviews store, the
\* version list and the selected version stay as they were and the failure is
\* reported.
C14_FailedWriteFrame ==
    [][\A t \in tasks :
          (t.stage = "post" /\ SaveFails(t)) =>
              /\ interviews' = interviews
              /\ versions' = versions
              /\ selectedVersion' = selectedVersion
              /\ toast' = "Failed to save interview"]_vars

\* the failure was reported and the backend holds no manual version: the save
\* that failed had not written its version
C14_Witness ==
    /\ toast = "Failed to save interview"
    /\ modalOpen
    /\ Len(answers) > 0
    /\ \A a \in DOMAIN backend : \A v \in DOMAIN backend[a] :
          backend[a][v].model # Some("gpt-5.1-human-edit")

\* C20: an interview the store marks human-approved is not set back to an
\* AI-generated or Draft status by any later step.
C20_StatusOnlyForward ==
    [][\A id \in DOMAIN interviews :
          HumanApproved(interviews[id].status) =>
              \A row \in RowsOf(interviews', interviews[id].audioId) :
                  HumanApproved(row.status)]_vars

-----------------------------------------------------------------------------
(* Claims about azure.ts (under SpecAzure and SpecAzureFair) *)

Polling == op = PollOp

BothTexts == call.hindiTranscript # None /\ call.englishTranscript # None

\* what holds of the poll in every state: the rounds and the requests of a round
\* are bounded, it has returned only with both texts or with its rounds used up,
\* unmounted or not, and what it returned is what it had
PollBounded ==
    Polling =>
        /\ call.attempts <= maxAttempts
        /\ call.asked["transcript"] <= 1 /\ call.asked["translation"] <= 1
        /\ outcome # None =>
              /\ BothTexts \/ call.attempts = maxAttempts
              /\ outcome[1] = Returned("transcripts",
                                       <<call.hindiTranscript, call.englishTranscript>>)
        /\ (outcome = None /\ call.pc # "start") =>
              call.pc \in {"transcript", "translation", "sleep"}

\* C15: pollForTranscripts always terminates: it runs at most maxAttempts rounds
\* (30 by default) with at most one transcript and one translation request each,
\* ends only with both texts or with the rounds used up, whether or not the view
\* is still mounted, and then returns what it has.
C15_PollTerminates ==
    /\ []PollBounded
    /\ (Polling ~> (outcome # None))

C15_Witness ==
    /\ Polling /\ ~mounted
    /\ maxAttempts = DefaultMaxAttempts
    /\ call.attempts = DefaultMaxAttempts
    /\ call.hindiTranscript # None /\ call.englishTranscript = None
    /\ outcome # None

\* the request did not succeed: fetch rejected, or the response is not ok (the
\* 404 of DELETE /api/records/{audioId} is the "already absent" answer)
RequestFailed(name, resp) ==
    \/ resp.failed
    \/ (~Ok(resp) /\ ~(name = "deleteRecord" /\ resp.status = 404))

DeletionOps == {"deleteRecord", "deleteQuestionnaire", "deleteAnalysis"}

\* C17: deleteRecord, deleteQuestionnaire and deleteAnalysis return normally when
\* the response is a 404.
C17_DeleteTolerates404 ==
    ( /\ op \in DeletionOps
      /\ outcome # None /\ response # None
      /\ ~response[1].failed /\ response[1].status = 404 )
    => outcome[1].kind = "value"

\* C18: without a base URL every function, the poll included, fails with the
\* configuration error and has issued no request.
C18_ConfigErrorFirst ==
    (~baseUrl /\ call.pc \notin {"start", "sleep"}) =>
        /\ outcome = Some(Threw("config"))
        /\ \A k \in RequestKinds : call.asked[k] = 0

\* C19: getTranscript and getTranslation return status "pending" for a 202 and
\* status "ready" with the text for a 200, and throw only for a response whose
\* status is outside 2xx.
C19_ReadinessAsValue ==
    ( /\ op \in {"getTranscript", "getTranslation"}
      /\ outcome # None /\ response # None
      /\ ~response[1].failed )
    => /\ response[1].status = 202 => outcome[1] = Returned("pending", "")
       /\ response[1].status = 200 =>
             (outcome[1].kind = "value" /\ outcome[1].what = "ready")
       /\ outcome[1].kind = "error" => ~Ok(response[1])

-----------------------------------------------------------------------------
(* Further claims about the aligner (under SpecAlign) *)

\* an analysis entry that "looks like a prompt": it has a promptText, or a response
\* and neither an answerSummary nor a questionText
PromptLikeEntry(e) ==
    /\ e.kind = "object"
    /\ \/ (e.promptText # None /\ e.promptText[1] # <<>>)
       \/ /\ e.response # None /\ e.response[1] # <<>>
          /\ (e.answerSummary = None \/ e.answerSummary[1] = <<>>)
          /\ (e.questionText = None \/ e.questionText[1] = <<>>)

\* the answer summaries only prompt-like entries of the analysis carry
PromptOnlyAnswers ==
    LET es == Range(analysis.questions)
        Summaries(S) == {e.answerSummary[1] : e \in {x \in S : x.answerSummary # None}}
    IN (Summaries({e \in es : PromptLikeEntry(e)})
           \ Summaries({e \in es : e.kind = "object" /\ ~PromptLikeEntry(e)})) \ {<<>>}

\* C21: no AnswerBlock has the answer of an analysis entry that looks like a prompt,
\* whether the entry sits at the question's index or at its array position.
C21_NoPromptAnswers ==
    Aligned => \A k \in 1..Len(answers) : answers[k].answer \notin PromptOnlyAnswers

\* an entry with a promptText and an answer of its own sits at Q1's index and
\* position; Q1 is answered from the next valid entry instead
C21_Witness ==
    /\ Aligned
    /\ guides[1].questions = <<Q1, Q2>>
    /\ analysis.questions = <<EPromptAnswered, E1>>
    /\ ShownAnswers = <<A2, A2>>

-----------------------------------------------------------------------------
(* The version list of the modal, loaded request by request (SpecVersions) *)

\* a loader that asks for the newest listed item only
FiresFirst(list) ==
    [list |-> list,
     state |-> [k \in 1..Len(list) |-> IF k = 1 THEN "flying" ELSE "unasked"],
     fired |-> [k \in 1..Len(list) |-> IF k = 1 THEN 1 ELSE 0],
     arrival |-> <<>>,
     done |-> FALSE]

\* allAnalyses.map(async (a) => ... await getAnalysis(..., { version: a.version })):
\* every callback runs to its await before Promise.all is awaited, so one
\* request per listed item is in flight at once
FiresAll(list) ==
    [list |-> list,
     state |-> [k \in 1..Len(list) |-> "flying"],
     fired |-> [k \in 1..Len(list) |-> 1],
     arrival |-> <<>>,
     done |-> FALSE]

\* the listed versions whose getAnalysis resolved
FetchedVersions(f) == {f.list[k] : k \in {j \in 1..Len(f.list) : f.state[j] = "resolved"}}

\* loadVersions: listAnalysis resolves and the per-version requests go out
ListVersions(t) ==
    /\ t \in tasks /\ t.kind = "loadVersions" /\ t.stage = "list"
    /\ versionFetch = None
    /\ \E order \in ListOrders(DOMAIN backend[t.iv.audioId]) :
          /\ tasks' = (tasks \ {t}) \cup {[t EXCEPT !.stage = "models", !.list = order]}
          /\ listing' = Some([id |-> t.iv.audioId,
                              outcome |-> IF order = <<>> THEN "empty" ELSE "listed"])
          /\ versionFetch' = Some(FiresAll(order))
    /\ UNCHANGED <<guideLine, classified, baseUrl, op, maxAttempts, call, response, outcome,
                   mounted, upload, roundTrip, loads, analyze, refreshVars, shownVars, alignVars, isAdmin, modalOpen, interview,
                   versions, selectedVersion, loadingVersions, loadingVersionData, backend,
                   opened, toast, guideVars>>

\* one per-version getAnalysis settles: it resolves, or it rejects and the
\* callback's catch swallows the error
VersionSettles(k, ok) ==
    /\ versionFetch # None
    /\ k \in 1..Len(versionFetch[1].list)
    /\ versionFetch[1].state[k] = "flying"
    /\ versionFetch' = Some([versionFetch[1] EXCEPT
                               !.state[k] = IF ok THEN "resolved" ELSE "rejected",
                               !.arrival = Append(@, k)])
    /\ UNCHANGED <<guideLine, classified, baseUrl, op, maxAttempts, call, response, outcome,
                   mounted, upload, roundTrip, loads, analyze, refreshVars, shownVars, alignVars, modalVars, guideVars>>

\* loadVersions: Promise.all resolves once every callback returned its row; the
\* rows are sorted and set, the first one selected, and finally clears the flag
LoadVersionsCompletes(t) ==
    /\ t \in tasks /\ t.kind = "loadVersions" /\ t.stage = "models"
    /\ versionFetch # None /\ ~versionFetch[1].done
    /\ \A k \in 1..Len(versionFetch[1].list) : versionFetch[1].state[k] # "flying"
    /\ LET sorted == SortByVersionDesc(versionsWithModel(backend, t.iv.audioId, t.list,
                                                         FetchedVersions(versionFetch[1])))
       IN /\ versions' = sorted
          /\ Render(modalOpen, interview, SelectedAfter(sorted), tasks \ {t}, FALSE,
                    loadingVersionData, answers)
    /\ versionFetch' = Some([versionFetch[1] EXCEPT !.done = TRUE])
    /\ UNCHANGED <<guideLine, classified, baseUrl, op, maxAttempts, call, response, outcome,
                   mounted, upload, roundTrip, loads, analyze, refreshVars, guides, interviews, prompts, backend, listing, opened,
                   toast, isAdmin, alignVars, guideVars>>

InitVersions == InitSession({FALSE}, VersionSets, {{}})

NextVersions ==
    \/ \E id \in DOMAIN interviews : EditInterview(id)
    \/ \E t \in tasks : ListVersions(t)
    \/ \E t \in tasks : LoadVersionsFails(t)
    \/ \E k \in 1..MaxVersion, ok \in BOOLEAN : VersionSettles(k, ok)
    \/ \E t \in tasks : LoadVersionsCompletes(t)

SpecVersions == InitVersions /\ [][NextVersions]_vars

\* the rows are in strictly descending version order
SortedDescending(rows) ==
    \A i, j \in 1..Len(rows) : i < j => rows[i].version > rows[j].version

\* the model name the backend holds for a version of the opened interview
StoredModel(v) ==
    LET held == backend[interview[1].audioId]
    IN IF v \in DOMAIN held /\ held[v].model # None THEN held[v].model[1] ELSE ""

\* C22: loading the version list asks for every listed version exactly once, all
\* of them before any has answered, and ends with exactly one row per listed
\* version in descending order, whatever order the answers came in; a version
\* whose request failed keeps its row, with an empty model name.
C22_OneRowPerVersion ==
    versionFetch # None =>
        LET f == versionFetch[1]
        IN /\ \A k \in 1..Len(f.list) : f.fired[k] = 1
           /\ f.arrival = <<>> => \A k \in 1..Len(f.list) : f.state[k] = "flying"
           /\ f.done =>
                 /\ Len(versions) = Len(f.list)
                 /\ {versions[i].version : i \in 1..Len(versions)} = Range(f.list)
                 /\ SortedDescending(versions)
                 /\ \A i \in 1..Len(versions) :
                       versions[i].model =
                          IF versions[i].version \in FetchedVersions(f)
                          THEN StoredModel(versions[i].version) ELSE ""

\* three versions listed out of order, answered in another order, one request failed
C22_Witness ==
    /\ versionFetch # None /\ versionFetch[1].done
    /\ versionFetch[1].list = <<2, 3, 1>>
    /\ versionFetch[1].arrival = <<3, 1, 2>>
    /\ versionFetch[1].state = <<"resolved", "rejected", "resolved">>
    /\ versions = <<[version |-> 3, model |-> ""], [version |-> 2, model |-> "gpt-5.1"],
                    [version |-> 1, model |-> "gpt-5.1"]>>

-----------------------------------------------------------------------------
(* The audio upload section (SpecUpload) *)

MaxUploadCalls == 2

FieldTexts == {<<>>, <<" ">>, <<"x">>}

\* file.size against the 20 MB and 50 MB marks of the large-file notices
FileSizes == {"small", "large"}

\* the form as the handler's reset leaves it
EmptyForm ==
    [file |-> None, interviewer |-> <<>>, farmerName |-> <<>>, village |-> <<>>,
     interviewDate |-> <<>>]

\* the first failing validation of handleUpload, or "" when all pass
UploadValidation(form) ==
    IF form.file = None THEN "Please select an audio file"
    ELSE IF Trim(form.interviewer) = <<>> THEN "Please enter interviewer name"
    ELSE IF Trim(form.farmerName) = <<>> THEN "Please enter farmer name"
    ELSE IF Trim(form.village) = <<>> THEN "Please enter village/district"
    ELSE IF form.interviewDate = <<>> THEN "Please select interview date"
    ELSE ""

InitUpload ==
    /\ \E f \in {None} \cup {Some(z) : z \in FileSizes},
          i \in FieldTexts, n \in FieldTexts, v \in FieldTexts, d \in {<<>>, <<"d">>} :
          upload = Some([form |-> [file |-> f, interviewer |-> i, farmerName |-> n,
                                   village |-> v, interviewDate |-> d],
                         entered |-> EmptyForm,
                         isUploading |-> FALSE,
                         pc |-> "idle",
                         log |-> <<>>,
                         audioId |-> None,
                         toast |-> "none",
                         calls |-> 0])
    /\ versionFetch = None
    /\ roundTrip = None
    /\ loads = NoLoads
    /\ analyze = None
    /\ guideLine = <<>>
    /\ classified = None
    /\ baseUrl = TRUE
    /\ op = "none"
    /\ maxAttempts = 0
    /\ call = <<>>
    /\ response = None
    /\ outcome = None
    /\ mounted = TRUE
    /\ ShownIdle
    /\ AlignIdle
    /\ ModalIdle
    /\ GuideIdle
    /\ RefreshIdle

UploadFrame ==
    UNCHANGED <<guideLine, classified, baseUrl, op, maxAttempts, call, response, outcome,
                mounted, versionFetch, roundTrip, loads, analyze, refreshVars, shownVars, alignVars, modalVars,
                guideVars>>

\* handleUpload up to its first await: the validations, setIsUploading(true),
\* the large-file notice and the call of createUploadUrl
HandleUpload ==
    /\ upload # None /\ upload[1].pc = "idle" /\ ~upload[1].isUploading
    /\ upload[1].calls < MaxUploadCalls
    /\ LET u == upload[1]
           failed == UploadValidation(u.form)
       IN upload' = Some(IF failed # ""
                         THEN [u EXCEPT !.toast = failed, !.calls = @ + 1]
                         ELSE [u EXCEPT !.isUploading = TRUE, !.pc = "url",
                                        !.entered = u.form, !.log = <<"url">>,
                                        !.toast = IF u.form.file[1] = "large"
                                                  THEN "large file" ELSE u.toast,
                                        !.calls = @ + 1])
    /\ UploadFrame

\* createUploadUrl settles: on success the audio id is kept and uploadToSAS
\* called; on failure the catch reports it and clears the busy flag
UploadUrlResponds(ok) ==
    /\ upload # None /\ upload[1].pc = "url"
    /\ upload' = Some(IF ok
                      THEN [upload[1] EXCEPT !.pc = "put", !.audioId = Some("audio"),
                                             !.log = @ \o <<"urlOk", "put">>]
                      ELSE [upload[1] EXCEPT !.pc = "idle", !.isUploading = FALSE,
                                             !.log = Append(@, "urlFailed"),
                                             !.toast = "Processing failed"])
    /\ UploadFrame

\* a handler that starts the poll whether or not the upload went through
AfterPutPollsAnyway(u, ok) ==
    [u EXCEPT !.pc = "idle", !.isUploading = FALSE,
              !.log = @ \o <<IF ok THEN "putOk" ELSE "putFailed", "poll">>,
              !.toast = IF ok THEN "Upload successful!" ELSE "Processing failed",
              !.form = IF ok THEN EmptyForm ELSE @]

\* the state after uploadToSAS settled and the handler ran on: on success the
\* toast, the flag, the background poll, the parent's callback and the reset
\* of the form; on failure the catch
AfterPut(u, ok) ==
    IF ok
    THEN [u EXCEPT !.pc = "idle", !.isUploading = FALSE,
                   !.log = @ \o <<"putOk", "poll">>,
                   !.toast = "Upload successful!",
                   !.form = EmptyForm]
    ELSE [u EXCEPT !.pc = "idle", !.isUploading = FALSE,
                   !.log = Append(@, "putFailed"),
                   !.toast = "Processing failed"]

PutResponds(ok) ==
    /\ upload # None /\ upload[1].pc = "put"
    /\ upload' = Some(AfterPut(upload[1], ok))
    /\ UploadFrame

NextUpload ==
    \/ HandleUpload
    \/ \E ok \in BOOLEAN : UploadUrlResponds(ok)
    \/ \E ok \in BOOLEAN : PutResponds(ok)

SpecUpload == InitUpload /\ [][NextUpload]_vars

IsPrefixOf(s, t) == Len(s) <= Len(t) /\ \A k \in 1..Len(s) : s[k] = t[k]

\* the three ways a run of the handler can go
UploadRuns ==
    {<<"url", "urlOk", "put", "putOk", "poll">>,
     <<"url", "urlFailed">>,
     <<"url", "urlOk", "put", "putFailed">>}

UploadStepFailed ==
    /\ upload # None /\ upload[1].log # <<>>
    /\ upload[1].log[Len(upload[1].log)] \in {"urlFailed", "putFailed"}

\* C23: a run of the upload handler sends the blob PUT only after the upload-URL
\* request succeeded and starts polling only after the PUT succeeded; when either
\* step fails no polling is started, the busy flag is cleared and the form still
\* holds what was entered.
C23_UploadOrdered ==
    upload # None =>
        /\ \E run \in UploadRuns : IsPrefixOf(upload[1].log, run)
        /\ UploadStepFailed =>
              /\ "poll" \notin Range(upload[1].log)
              /\ ~upload[1].isUploading
              /\ upload[1].form = upload[1].entered

\* the upload URL was given and the PUT then failed
C23_Witness ==
    /\ upload # None
    /\ upload[1].log = <<"url", "urlOk", "put", "putFailed">>
    /\ upload[1].form.file = Some("large")
    /\ upload[1].form.village = <<"x">>

-----------------------------------------------------------------------------
(* Further claims about the modal and its saves *)

\* the manual versions the backend holds for an interview
ManualVersions(id) ==
    {v \in DOMAIN backend[id] : backend[id][v].model = Some("gpt-5.1-human-edit")}

\* the answers an interview's own analyses hold, and the blank of a question
\* its analysis did not answer
OwnAnswers(id) == {<<>>} \cup {StoredAnswer(id, v) : v \in 0..(MaxVersion + MaxSaves)}

\* C24: every manual version saved for an interview holds only answers of that
\* interview's own analysis: a modal used for one interview and then opened for
\* another never saves the first one's answers under the second one's pair.
C24_SavesOwnAnswers ==
    \A id \in ModalIds : \A v \in ManualVersions(id) :
        \A k \in 1..Len(backend[id][v].questions) :
            backend[id][v].questions[k].answerSummary[1] \in OwnAnswers(id)

\* the data loads still in flight in a set of tasks
DataLoads(ts) == {t \in ts : t.kind = "loadData"}

\* C25: when the last data load in flight has answered and its result is put on
\* screen, it is the load of the opened interview and of the selected version:
\* a response that arrives late never stays over the one asked for last.
C25_LastResponseIsCurrent ==
    [][\A t \in tasks :
          (/\ LoadDataResolves(t)
           /\ modalOpen /\ interview # None
           /\ DataLoads(tasks') = {}) =>
              /\ t.iv.audioId = interview[1].audioId
              /\ t.opts = DataLoadOpts(isAdmin, selectedVersion)]_vars

-----------------------------------------------------------------------------
(* Save and reload of the answers on screen (SpecRoundTrip) *)

MaxReloadEntries == 3

\* a prompt of 40 characters and a guide line of 50 that begins with it: the
\* fetched-questions filter keeps the line (the lengths differ by 10), the filter
\* before the mapping drops it (40 / 50 >= 0.8)
LongPrompt == [k \in 1..40 |-> "p"]
LongLine == LongPrompt \o [k \in 1..10 |-> "z"]
PLong == [index |-> Some(0), promptText |-> Some(LongPrompt), response |-> Some(RespText)]

\* what getQuestionnaire gives the data load when the stored guide has no valid
\* question: nothing, or the guide's lines
FetchedQuestionnaires ==
    {None, Some([text |-> <<>>, questions |-> Some(<<LongLine, Q1, Q2>>), prompts |-> <<>>])}

InitRoundTrip ==
    /\ \E gq \in SeqsUpTo({Q1, Q2}, 2), rq \in SeqsUpTo({E0, E1, E2}, MaxReloadEntries),
          rp \in {<<>>, <<PLong>>}, fetched \in FetchedQuestionnaires :
          /\ guides = <<[id |-> TheGuideId, questions |-> gq, prompts |-> <<>>]>>
          /\ analysis = [model |-> Some("gpt-5.1"), questions |-> rq, prompts |-> rp]
          /\ roundTrip = Some([questionnaire |-> fetched, shown |-> <<>>])
    /\ answers = <<>>
    /\ prompts = <<>>
    /\ interviews = [i \in {TheInterviewId} |-> [status |-> "Draft", answers |-> <<>>]]
    /\ loadPc = "awaiting"
    /\ ModalIdle
    /\ GuideIdle
    /\ guideLine = <<>>
    /\ classified = None
    /\ baseUrl = TRUE
    /\ op = "none"
    /\ maxAttempts = 0
    /\ call = <<>>
    /\ response = None
    /\ outcome = None
    /\ mounted = TRUE
    /\ versionFetch = None
    /\ upload = None
    /\ loads = NoLoads
    /\ analyze = None
    /\ RefreshIdle

RoundTripFrame ==
    UNCHANGED <<guideLine, classified, baseUrl, op, maxAttempts, call, response, outcome,
                mounted, versionFetch, upload, loads, analyze, refreshVars, guides, modalVars, guideVars>>

\* the data load of the version on the backend: the effect from the getAnalysis
\* response to its end
AppliesVersion ==
    /\ roundTrip # None
    /\ prompts' = EffectPrompts(analysis)
    /\ IF EffectMaps(guides, TheGuideId, analysis)
       THEN LET mapped == EffectMapped(guides, TheGuideId, analysis,
                                       roundTrip[1].questionnaire)
            IN /\ answers' = mapped
               /\ interviews' = updateInterview(interviews, TheInterviewId, mapped,
                                                StatusFromModel(analysis.model))
       ELSE UNCHANGED <<answers, interviews>>
    /\ UNCHANGED <<analysis, roundTrip>>
    /\ RoundTripFrame

\* the version the backend holds is loaded and shown
LoadShown ==
    /\ loadPc = "awaiting"
    /\ loadPc' = "done"
    /\ AppliesVersion

\* handleSave: the answers and prompts on screen become the newest version
SaveShown ==
    /\ loadPc = "done"
    /\ roundTrip # None
    /\ analysis' = resultPayload(answers, prompts)
    /\ roundTrip' = Some([roundTrip[1] EXCEPT !.shown = answers])
    /\ loadPc' = "saved"
    /\ UNCHANGED <<answers, prompts, interviews>>
    /\ RoundTripFrame

\* the saved version is selected and loaded
LoadSaved ==
    /\ loadPc = "saved"
    /\ loadPc' = "reloaded"
    /\ AppliesVersion

NextRoundTrip ==
    \/ LoadShown
    \/ SaveShown
    \/ LoadSaved

SpecRoundTrip == InitRoundTrip /\ [][NextRoundTrip]_vars

-----------------------------------------------------------------------------
(* What a save reports *)

\* the backend holds the manual version a save task posted
Persisted(t) ==
    \E v \in ManualVersions(t.iv.audioId) :
        backend[t.iv.audioId][v] = resultPayload(t.saved.answers, t.saved.prompts)

\* C27: a save reports "Failed to save interview" only when its manual version
\* was not persisted; once the write succeeded the save does not report a
\* failure, even when the reload of the version list fails.
C27_FailureMeansNotSaved ==
    [][\A t \in tasks :
          (SaveFails(t) /\ toast' = "Failed to save interview") => ~Persisted(t)]_vars

-----------------------------------------------------------------------------
(* The text export's answers (download.ts) next to the modal's *)

\* validQuestions of the export: objects with an answerSummary or an index
DownloadValidQuestions(resultQs) ==
    LET Keep(q) == q.kind = "object" /\ (IsDefined(q.answerSummary) \/ IsDefined(q.index))
    IN SelectSeq(resultQs, Keep)

\* the entry the export takes for the question at position i (0-based): by
\* index, else by array position, else {}
DownloadFound(valid, i) ==
    LET byIndex == FindByIndex(valid, i)
    IN IF byIndex # None THEN byIndex[1]
       ELSE IF i + 1 <= Len(valid) THEN valid[i + 1]
       ELSE EmptyEntry

\* ensureInterviewAnswers for an interview without cached answers whose guide
\* is in the store
ensureInterviewAnswers(gs, guideId, a) ==
    IF FindGuide(gs, guideId) # None /\ Len(a.questions) > 0
    THEN LET validQs == DownloadValidQuestions(a.questions)
             lines == SelectSeq(FindGuide(gs, guideId)[1].questions, isValidQuestionText)
         IN [k \in 1..Len(lines) |-> AnswerBlockOf(lines[k], DownloadFound(validQs, k - 1))]
    ELSE <<>>

\* C28: for the same guide and the same latest analysis payload, the answers the
\* text export writes equal the answers the modal shows, block by block, also
\* when the payload carries prompts.
C28_ExportEqualsModal ==
    Aligned => ensureInterviewAnswers(guides, TheGuideId, analysis) = answers

-----------------------------------------------------------------------------
(* Overlapping runs of loadInterviews (SpecOverlap) *)

MaxLoads == 3

\* the runs of loadInterviews that are suspended at an await
RunsInFlight == DOMAIN loads.runs

OverlapFrame ==
    UNCHANGED <<guideLine, classified, baseUrl, op, maxAttempts, call, response, outcome,
                mounted, versionFetch, upload, roundTrip, analyze, refreshVars, guides, answers,
                prompts, alignVars, guideVars>>

WithoutRun(n) == [m \in RunsInFlight \ {n} |-> loads.runs[m]]

WithRun(n, run) == [m \in RunsInFlight \cup {n} |-> IF m = n THEN run ELSE loads.runs[m]]

\* loadInterviews is called (on mount, by the 5-second interval of the table,
\* after a deletion) whether or not an earlier run is still going, and suspends
\* at listAnalysis
StartLoad ==
    /\ loads.started < MaxLoads
    /\ loads' = [loads EXCEPT !.started = @ + 1,
                              !.runs = WithRun(loads.started + 1,
                                               [stage |-> "list", at |-> 0, status |-> <<>>])]
    /\ UNCHANGED <<interviews, modalVars>>
    /\ OverlapFrame

\* a run's listAnalysis or listRecords rejects: the catch keeps the store
LoadFails(n) ==
    /\ n \in RunsInFlight /\ loads.runs[n].stage = "list"
    /\ loads' = [loads EXCEPT !.runs = WithoutRun(n)]
    /\ UNCHANGED <<interviews, modalVars>>
    /\ OverlapFrame

\* a run lists the analyses and fetches each one's latest model; an empty
\* listing empties the store at once
LoadFetches(n) ==
    /\ n \in RunsInFlight /\ loads.runs[n].stage = "list"
    /\ IF ListedAudios(backend) = {}
       THEN /\ interviews' = <<>>
            /\ loads' = [loads EXCEPT !.runs = WithoutRun(n), !.fetches = @ + 1,
                                      !.stored = Append(@, [run |-> n,
                                                            at |-> loads.fetches + 1])]
       ELSE /\ \E ok \in BOOLEAN :
                  loads' = [loads EXCEPT !.fetches = @ + 1, !.runs =
                               WithRun(n, [stage |-> "set", at |-> loads.fetches + 1,
                                           status |-> [a \in ListedAudios(backend) |->
                                                         IF ok THEN LatestStatus(backend, a)
                                                         ELSE "Draft"]])]
            /\ UNCHANGED interviews
    /\ UNCHANGED modalVars
    /\ OverlapFrame

\* a run reaches set({ interviews: out })
LoadSets(n) ==
    /\ n \in RunsInFlight /\ loads.runs[n].stage = "set"
    /\ LET status == loads.runs[n].status
       IN interviews' = [id \in {Uuid(a, n) : a \in DOMAIN status} |->
                            StoreRow(CHOOSE a \in DOMAIN status : Uuid(a, n) = id,
                                     status[CHOOSE a \in DOMAIN status : Uuid(a, n) = id])]
    /\ loads' = [loads EXCEPT !.runs = WithoutRun(n),
                              !.stored = Append(@, [run |-> n, at |-> loads.runs[n].at])]
    /\ UNCHANGED modalVars
    /\ OverlapFrame

\* meanwhile a manual version is saved for an interview on the backend
ManualVersionAppears(id) ==
    /\ ManualVersions(id) = {}
    /\ backend' = BackendCreateManual(backend, id, resultPayload(<<>>, <<>>))
    /\ UNCHANGED <<loads, interviews, isAdmin, modalOpen, interview, versions, selectedVersion,
                   loadingVersions, loadingVersionData, tasks, listing, opened, toast>>
    /\ OverlapFrame

InitOverlap == InitSession({FALSE}, {{}, {1}}, {{}, {1}})

NextOverlap ==
    \/ StartLoad
    \/ \E n \in 1..MaxLoads : LoadFails(n)
    \/ \E n \in 1..MaxLoads : LoadFetches(n)
    \/ \E n \in 1..MaxLoads : LoadSets(n)
    \/ \E id \in ModalIds : ManualVersionAppears(id)

SpecOverlap == InitOverlap /\ [][NextOverlap]_vars

\* the runs whose result the store has held that started after run n and
\* read the backend after run n did
NewerStored(n) ==
    {k \in 1..Len(loads.stored) :
        /\ loads.stored[k].run > n
        /\ loads.stored[k].at > loads.runs[n].at}

\* C29: with loads overlapping, a run of loadInterviews never puts its result
\* into the store after a run that started later and read the backend later has
\* put its own there, and a run that fails leaves the list as it was.
C29_NewerLoadWins ==
    [][\A n \in 1..MaxLoads :
          /\ LoadSets(n) => NewerStored(n) = {}
          /\ LoadFails(n) => interviews' = interviews]_vars

-----------------------------------------------------------------------------
(* The Analyze section (SpecAnalyze) *)

\* the guides and the completed translations the section has loaded
LoadedGuideIds == {"g1"}
LoadedTranslationIds == {"A"}

\* what the two Selects can hold: nothing, a loaded item, an item no longer loaded
GuideSelections == {"", "g1", "g9"}
TranslationSelections == {"", "A", "Z"}

\* the first failing validation of handleAnalyze, or "" when all pass
AnalyzeValidation(guideId, translationId) ==
    IF guideId = "" \/ translationId = "" THEN "Please select both a guide and a translation"
    ELSE IF guideId \notin LoadedGuideIds THEN "Selected guide not found"
    ELSE IF translationId \notin LoadedTranslationIds THEN "Selected translation not found"
    ELSE ""

\* translationResp.status === "ready" && translationResp.data
TranslationReady(result) ==
    result.kind = "value" /\ result.what = "ready" /\ result.data # ""

InitAnalyze ==
    /\ \E g \in GuideSelections, t \in TranslationSelections :
          analyze = Some([selectedGuideId |-> g, selectedTranslationId |-> t,
                          pc |-> "idle", isAnalyzing |-> FALSE, translation |-> None,
                          ranAnalysis |-> FALSE, toast |-> "none"])
    /\ baseUrl \in BOOLEAN
    /\ guideLine = <<>>
    /\ classified = None
    /\ op = "none"
    /\ maxAttempts = 0
    /\ call = <<>>
    /\ response = None
    /\ outcome = None
    /\ mounted = TRUE
    /\ versionFetch = None
    /\ upload = None
    /\ roundTrip = None
    /\ loads = NoLoads
    /\ ShownIdle
    /\ AlignIdle
    /\ ModalIdle
    /\ GuideIdle
    /\ RefreshIdle

AnalyzeFrame ==
    UNCHANGED <<guideLine, classified, baseUrl, op, maxAttempts, call, outcome, mounted,
                versionFetch, upload, roundTrip, loads, refreshVars, shownVars, alignVars,
                modalVars, guideVars>>

\* handleAnalyze up to its first await: the validations, setIsAnalyzing(true)
\* and the call of getTranslation
HandleAnalyze ==
    /\ analyze # None /\ analyze[1].pc = "idle"
    /\ LET a == analyze[1]
           failed == AnalyzeValidation(a.selectedGuideId, a.selectedTranslationId)
       IN analyze' = Some(IF failed # ""
                          THEN [a EXCEPT !.toast = failed, !.pc = "done"]
                          ELSE [a EXCEPT !.isAnalyzing = TRUE, !.pc = "translation"])
    /\ UNCHANGED response
    /\ AnalyzeFrame

\* the state after getTranslation settled with a result: a value that is not
\* ready ends the run; a ready value, and an error (the inner catch is empty),
\* go on to runAnalysis
AfterTranslationCheck(a, result) ==
    IF result.kind = "value" /\ ~TranslationReady(result)
    THEN [a EXCEPT !.translation = Some(result), !.toast = "Translation is not ready yet",
                   !.isAnalyzing = FALSE, !.pc = "done"]
    ELSE [a EXCEPT !.translation = Some(result), !.ranAnalysis = TRUE, !.pc = "run"]

\* getTranslation settles
TranslationSettles(resp) ==
    /\ analyze # None /\ analyze[1].pc = "translation"
    /\ response' = Some(resp)
    /\ analyze' = Some(AfterTranslationCheck(analyze[1],
                                             IF baseUrl THEN getTranslation(resp)
                                             ELSE Threw("config")))
    /\ AnalyzeFrame

\* runAnalysis settles: on success getAnalysis is called for the latest version
RunAnalysisSettles(ok) ==
    /\ analyze # None /\ analyze[1].pc = "run"
    /\ ok => baseUrl
    /\ analyze' = Some(IF ok
                       THEN [analyze[1] EXCEPT !.pc = "latest"]
                       ELSE [analyze[1] EXCEPT !.pc = "done", !.isAnalyzing = FALSE,
                                               !.toast = "Failed to run analysis"])
    /\ UNCHANGED response
    /\ AnalyzeFrame

\* getAnalysis settles: the success toast, or the outer catch; finally clears the flag
LatestAnalysisSettles(ok) ==
    /\ analyze # None /\ analyze[1].pc = "latest"
    /\ analyze' = Some([analyze[1] EXCEPT
                           !.pc = "done", !.isAnalyzing = FALSE,
                           !.toast = IF ok THEN "Analysis completed successfully"
                                     ELSE "Failed to run analysis"])
    /\ UNCHANGED response
    /\ AnalyzeFrame

NextAnalyze ==
    \/ HandleAnalyze
    \/ \E resp \in Responses : TranslationSettles(resp)
    \/ \E ok \in BOOLEAN : RunAnalysisSettles(ok)
    \/ \E ok \in BOOLEAN : LatestAnalysisSettles(ok)

SpecAnalyze == InitAnalyze /\ [][NextAnalyze]_vars

\* C30: runAnalysis is invoked only after the selected audio's translation was
\* confirmed ready, with text, in the same run; otherwise no analysis is
\* triggered and the analyzing flag is cleared.
C30_AnalysisNeedsReadyTranslation ==
    analyze # None =>
        /\ analyze[1].ranAnalysis =>
              (analyze[1].translation # None /\ TranslationReady(analyze[1].translation[1]))
        /\ (analyze[1].translation # None /\ ~TranslationReady(analyze[1].translation[1])) =>
              (~analyze[1].ranAnalysis /\ ~analyze[1].isAnalyzing)

====
